---- MODULE Spec2Model ----
(***************************************************************************)
(* The move kernel of edax-reversi (AVX/SSE build): flip() of              *)
(* flip_sse_bitscan.c and last_flip() of count_last_flip_sse.c, with the   *)
(* constant tables they read.                                              *)
(*                                                                         *)
(* A 64-bit word (unsigned long long, one lane of a __v2di / __m256i) is   *)
(* modelled as the set of its 1 bits, a subset of 0..63; bit i is square i *)
(* (row i / 8, column i % 8).  Arithmetic on words is arithmetic modulo    *)
(* 2^64, done bit by bit.  A __v2di is a pair of words, a __m256i a        *)
(* quadruple, lane 0 first.                                                *)
(***************************************************************************)
EXTENDS Integers, Sequences, FiniteSets, TLC

VARIABLES pc, pos, P, O, build, flipped, n_flipped, tab, idx, val, mem, thr, moves

vars == << pc, pos, P, O, build, flipped, n_flipped, tab, idx, val, mem, thr, moves >>

(***************************************************************************)
(* 64-bit words                                                            *)
(***************************************************************************)
Squares == 0 .. 63

ALLBITS == 0 .. 63

ZERO == {}

(* a & b; nothing of a is looked at when b is 0 *)
And(a, b) == IF b = ZERO THEN ZERO ELSE a \cap b

Or(a, b) == a \cup b

Xor(a, b) == (a \ b) \cup (b \ a)

Not(a) == ALLBITS \ a

(* the highest and the lowest 1 bit of a non-zero word *)
MaxBit(a) == CHOOSE i \in a : a \ (0 .. i) = {}

MinBit(a) == CHOOSE i \in a : a \cap (0 .. (i - 1)) = {}

(* a + b + cin modulo 2^64, ripple carry from bit i upward *)
RECURSIVE AddFrom(_, _, _, _)
AddFrom(a, b, i, cin) ==
  IF i > 63 THEN {}
  ELSE LET s == (IF i \in a THEN 1 ELSE 0) + (IF i \in b THEN 1 ELSE 0) + cin
       IN  (IF s % 2 = 1 THEN {i} ELSE {}) \cup AddFrom(a, b, i + 1, s \div 2)

(* a + 1 and a - 1 modulo 2^64: the carry (the borrow) runs up to the lowest 0
   (the lowest 1) bit *)
Inc(a) ==
  IF a = ALLBITS THEN ZERO
  ELSE LET z == MinBit(Not(a)) IN (a \ (0 .. z)) \cup {z}

Dec(a) ==
  IF a = ZERO THEN ALLBITS
  ELSE LET m == MinBit(a) IN (a \ {m}) \cup (0 .. (m - 1))

(* a - b modulo 2^64 = a + ~b + 1 *)
Sub(a, b) ==
  IF b = ZERO THEN a
  ELSE IF b = {0} THEN Dec(a)
  ELSE IF b = ALLBITS THEN Inc(a)
  ELSE IF a = ZERO THEN Inc(Not(b))
  ELSE AddFrom(a, Not(b), 0, 1)

(* the bitwise complement written for the unary minus *)
Neg_complement(a) == Not(a)

(* unary minus on an unsigned 64-bit value: 0 - a *)
Neg(a) == Sub(ZERO, a)

(* a * 2 modulo 2^64 *)
Mul2(a) == { i + 1 : i \in a \ {63} }

(* a << n and a >> n for a shift count 0 <= n <= 63 *)
Shl(a, n) == { i + n : i \in a \ ((64 - n) .. 63) }

Shr(a, n) == { i - n : i \in a \ (0 .. (n - 1)) }

RECURSIVE Pow2From(_)
Pow2From(n) == IF n = 0 THEN 1 ELSE 2 * Pow2From(n - 1)

Pow2Tab == [n \in 0 .. 30 |-> Pow2From(n)]

(* 2^n for 0 <= n <= 30 *)
Pow2(n) == Pow2Tab[n]

(* the value of a word that fits 30 bits, and the word of a small value *)
RECURSIVE ToNum(_)
ToNum(a) == IF a = {} THEN 0 ELSE LET i == MinBit(a) IN Pow2(i) + ToNum(a \ {i})

ToBits(n) == { i \in 0 .. 30 : (n \div Pow2(i)) % 2 = 1 }

(* a 64-bit hexadecimal constant 0xAAAABBBBCCCCDDDD, written in four groups *)
H(a, b, c, d) ==
  { i + 48 : i \in ToBits(a) } \cup { i + 32 : i \in ToBits(b) }
    \cup { i + 16 : i \in ToBits(c) } \cup ToBits(d)

(* a table of such constants, each entry written as its four groups *)
Words(t) ==
  [p \in DOMAIN t |-> [i \in DOMAIN t[p] |->
     H(t[p][i][1], t[p][i][2], t[p][i][3], t[p][i][4])]]

(* bit.h:75-77  x_to_bit(x): the word with only bit x set *)
x_to_bit(x) == {x}

(* bit.h:107  bit_count: population count *)
bit_count(a) == Cardinality(a)

(* bit.h:209-274  maskl[64][2], two 64-bit lanes each; the source writes every
   lane as ~0x...: the rows below hold the hexadecimal constants, in the order
   [0].ull[0], [0].ull[1], [1].ull[0], [1].ull[1], and maskl complements them. *)
maskl_hex ==
  << << << \h0000, \h0000, \h0000, \h00fe >>, << \h0000, \h0000, \h0000, \h0000 >>, << \h0101, \h0101, \h0101, \h0100 >>, << \h8040, \h2010, \h0804, \h0200 >> >>,
     << << \h0000, \h0000, \h0000, \h00fc >>, << \h0000, \h0000, \h0000, \h0100 >>, << \h0202, \h0202, \h0202, \h0200 >>, << \h0080, \h4020, \h1008, \h0400 >> >>,
     << << \h0000, \h0000, \h0000, \h00f8 >>, << \h0000, \h0000, \h0001, \h0200 >>, << \h0404, \h0404, \h0404, \h0400 >>, << \h0000, \h8040, \h2010, \h0800 >> >>,
     << << \h0000, \h0000, \h0000, \h00f0 >>, << \h0000, \h0000, \h0102, \h0400 >>, << \h0808, \h0808, \h0808, \h0800 >>, << \h0000, \h0080, \h4020, \h1000 >> >>,
     << << \h0000, \h0000, \h0000, \h00e0 >>, << \h0000, \h0001, \h0204, \h0800 >>, << \h1010, \h1010, \h1010, \h1000 >>, << \h0000, \h0000, \h8040, \h2000 >> >>,
     << << \h0000, \h0000, \h0000, \h00c0 >>, << \h0000, \h0102, \h0408, \h1000 >>, << \h2020, \h2020, \h2020, \h2000 >>, << \h0000, \h0000, \h0080, \h4000 >> >>,
     << << \h0000, \h0000, \h0000, \h0080 >>, << \h0001, \h0204, \h0810, \h2000 >>, << \h4040, \h4040, \h4040, \h4000 >>, << \h0000, \h0000, \h0000, \h8000 >> >>,
     << << \h0000, \h0000, \h0000, \h0000 >>, << \h0102, \h0408, \h1020, \h4000 >>, << \h8080, \h8080, \h8080, \h8000 >>, << \h0000, \h0000, \h0000, \h0000 >> >>,
     << << \h0000, \h0000, \h0000, \hfe00 >>, << \h0000, \h0000, \h0000, \h0000 >>, << \h0101, \h0101, \h0101, \h0000 >>, << \h4020, \h1008, \h0402, \h0000 >> >>,
     << << \h0000, \h0000, \h0000, \hfc00 >>, << \h0000, \h0000, \h0001, \h0000 >>, << \h0202, \h0202, \h0202, \h0000 >>, << \h8040, \h2010, \h0804, \h0000 >> >>,
     << << \h0000, \h0000, \h0000, \hf800 >>, << \h0000, \h0000, \h0102, \h0000 >>, << \h0404, \h0404, \h0404, \h0000 >>, << \h0080, \h4020, \h1008, \h0000 >> >>,
     << << \h0000, \h0000, \h0000, \hf000 >>, << \h0000, \h0001, \h0204, \h0000 >>, << \h0808, \h0808, \h0808, \h0000 >>, << \h0000, \h8040, \h2010, \h0000 >> >>,
     << << \h0000, \h0000, \h0000, \he000 >>, << \h0000, \h0102, \h0408, \h0000 >>, << \h1010, \h1010, \h1010, \h0000 >>, << \h0000, \h0080, \h4020, \h0000 >> >>,
     << << \h0000, \h0000, \h0000, \hc000 >>, << \h0001, \h0204, \h0810, \h0000 >>, << \h2020, \h2020, \h2020, \h0000 >>, << \h0000, \h0000, \h8040, \h0000 >> >>,
     << << \h0000, \h0000, \h0000, \h8000 >>, << \h0102, \h0408, \h1020, \h0000 >>, << \h4040, \h4040, \h4040, \h0000 >>, << \h0000, \h0000, \h0080, \h0000 >> >>,
     << << \h0000, \h0000, \h0000, \h0000 >>, << \h0204, \h0810, \h2040, \h0000 >>, << \h8080, \h8080, \h8080, \h0000 >>, << \h0000, \h0000, \h0000, \h0000 >> >>,
     << << \h0000, \h0000, \h00fe, \h0000 >>, << \h0000, \h0000, \h0000, \h0000 >>, << \h0101, \h0101, \h0100, \h0000 >>, << \h2010, \h0804, \h0200, \h0000 >> >>,
     << << \h0000, \h0000, \h00fc, \h0000 >>, << \h0000, \h0000, \h0100, \h0000 >>, << \h0202, \h0202, \h0200, \h0000 >>, << \h4020, \h1008, \h0400, \h0000 >> >>,
     << << \h0000, \h0000, \h00f8, \h0000 >>, << \h0000, \h0001, \h0200, \h0000 >>, << \h0404, \h0404, \h0400, \h0000 >>, << \h8040, \h2010, \h0800, \h0000 >> >>,
     << << \h0000, \h0000, \h00f0, \h0000 >>, << \h0000, \h0102, \h0400, \h0000 >>, << \h0808, \h0808, \h0800, \h0000 >>, << \h0080, \h4020, \h1000, \h0000 >> >>,
     << << \h0000, \h0000, \h00e0, \h0000 >>, << \h0001, \h0204, \h0800, \h0000 >>, << \h1010, \h1010, \h1000, \h0000 >>, << \h0000, \h8040, \h2000, \h0000 >> >>,
     << << \h0000, \h0000, \h00c0, \h0000 >>, << \h0102, \h0408, \h1000, \h0000 >>, << \h2020, \h2020, \h2000, \h0000 >>, << \h0000, \h0080, \h4000, \h0000 >> >>,
     << << \h0000, \h0000, \h0080, \h0000 >>, << \h0204, \h0810, \h2000, \h0000 >>, << \h4040, \h4040, \h4000, \h0000 >>, << \h0000, \h0000, \h8000, \h0000 >> >>,
     << << \h0000, \h0000, \h0000, \h0000 >>, << \h0408, \h1020, \h4000, \h0000 >>, << \h8080, \h8080, \h8000, \h0000 >>, << \h0000, \h0000, \h0000, \h0000 >> >>,
     << << \h0000, \h0000, \hfe00, \h0000 >>, << \h0000, \h0000, \h0000, \h0000 >>, << \h0101, \h0101, \h0000, \h0000 >>, << \h1008, \h0402, \h0000, \h0000 >> >>,
     << << \h0000, \h0000, \hfc00, \h0000 >>, << \h0000, \h0001, \h0000, \h0000 >>, << \h0202, \h0202, \h0000, \h0000 >>, << \h2010, \h0804, \h0000, \h0000 >> >>,
     << << \h0000, \h0000, \hf800, \h0000 >>, << \h0000, \h0102, \h0000, \h0000 >>, << \h0404, \h0404, \h0000, \h0000 >>, << \h4020, \h1008, \h0000, \h0000 >> >>,
     << << \h0000, \h0000, \hf000, \h0000 >>, << \h0001, \h0204, \h0000, \h0000 >>, << \h0808, \h0808, \h0000, \h0000 >>, << \h8040, \h2010, \h0000, \h0000 >> >>,
     << << \h0000, \h0000, \he000, \h0000 >>, << \h0102, \h0408, \h0000, \h0000 >>, << \h1010, \h1010, \h0000, \h0000 >>, << \h0080, \h4020, \h0000, \h0000 >> >>,
     << << \h0000, \h0000, \hc000, \h0000 >>, << \h0204, \h0810, \h0000, \h0000 >>, << \h2020, \h2020, \h0000, \h0000 >>, << \h0000, \h8040, \h0000, \h0000 >> >>,
     << << \h0000, \h0000, \h8000, \h0000 >>, << \h0408, \h1020, \h0000, \h0000 >>, << \h4040, \h4040, \h0000, \h0000 >>, << \h0000, \h0080, \h0000, \h0000 >> >>,
     << << \h0000, \h0000, \h0000, \h0000 >>, << \h0810, \h2040, \h0000, \h0000 >>, << \h8080, \h8080, \h0000, \h0000 >>, << \h0000, \h0000, \h0000, \h0000 >> >>,
     << << \h0000, \h00fe, \h0000, \h0000 >>, << \h0000, \h0000, \h0000, \h0000 >>, << \h0101, \h0100, \h0000, \h0000 >>, << \h0804, \h0200, \h0000, \h0000 >> >>,
     << << \h0000, \h00fc, \h0000, \h0000 >>, << \h0000, \h0100, \h0000, \h0000 >>, << \h0202, \h0200, \h0000, \h0000 >>, << \h1008, \h0400, \h0000, \h0000 >> >>,
     << << \h0000, \h00f8, \h0000, \h0000 >>, << \h0001, \h0200, \h0000, \h0000 >>, << \h0404, \h0400, \h0000, \h0000 >>, << \h2010, \h0800, \h0000, \h0000 >> >>,
     << << \h0000, \h00f0, \h0000, \h0000 >>, << \h0102, \h0400, \h0000, \h0000 >>, << \h0808, \h0800, \h0000, \h0000 >>, << \h4020, \h1000, \h0000, \h0000 >> >>,
     << << \h0000, \h00e0, \h0000, \h0000 >>, << \h0204, \h0800, \h0000, \h0000 >>, << \h1010, \h1000, \h0000, \h0000 >>, << \h8040, \h2000, \h0000, \h0000 >> >>,
     << << \h0000, \h00c0, \h0000, \h0000 >>, << \h0408, \h1000, \h0000, \h0000 >>, << \h2020, \h2000, \h0000, \h0000 >>, << \h0080, \h4000, \h0000, \h0000 >> >>,
     << << \h0000, \h0080, \h0000, \h0000 >>, << \h0810, \h2000, \h0000, \h0000 >>, << \h4040, \h4000, \h0000, \h0000 >>, << \h0000, \h8000, \h0000, \h0000 >> >>,
     << << \h0000, \h0000, \h0000, \h0000 >>, << \h1020, \h4000, \h0000, \h0000 >>, << \h8080, \h8000, \h0000, \h0000 >>, << \h0000, \h0000, \h0000, \h0000 >> >>,
     << << \h0000, \hfe00, \h0000, \h0000 >>, << \h0000, \h0000, \h0000, \h0000 >>, << \h0101, \h0000, \h0000, \h0000 >>, << \h0402, \h0000, \h0000, \h0000 >> >>,
     << << \h0000, \hfc00, \h0000, \h0000 >>, << \h0001, \h0000, \h0000, \h0000 >>, << \h0202, \h0000, \h0000, \h0000 >>, << \h0804, \h0000, \h0000, \h0000 >> >>,
     << << \h0000, \hf800, \h0000, \h0000 >>, << \h0102, \h0000, \h0000, \h0000 >>, << \h0404, \h0000, \h0000, \h0000 >>, << \h1008, \h0000, \h0000, \h0000 >> >>,
     << << \h0000, \hf000, \h0000, \h0000 >>, << \h0204, \h0000, \h0000, \h0000 >>, << \h0808, \h0000, \h0000, \h0000 >>, << \h2010, \h0000, \h0000, \h0000 >> >>,
     << << \h0000, \he000, \h0000, \h0000 >>, << \h0408, \h0000, \h0000, \h0000 >>, << \h1010, \h0000, \h0000, \h0000 >>, << \h4020, \h0000, \h0000, \h0000 >> >>,
     << << \h0000, \hc000, \h0000, \h0000 >>, << \h0810, \h0000, \h0000, \h0000 >>, << \h2020, \h0000, \h0000, \h0000 >>, << \h8040, \h0000, \h0000, \h0000 >> >>,
     << << \h0000, \h8000, \h0000, \h0000 >>, << \h1020, \h0000, \h0000, \h0000 >>, << \h4040, \h0000, \h0000, \h0000 >>, << \h0080, \h0000, \h0000, \h0000 >> >>,
     << << \h0000, \h0000, \h0000, \h0000 >>, << \h2040, \h0000, \h0000, \h0000 >>, << \h8080, \h0000, \h0000, \h0000 >>, << \h0000, \h0000, \h0000, \h0000 >> >>,
     << << \h00fe, \h0000, \h0000, \h0000 >>, << \h0000, \h0000, \h0000, \h0000 >>, << \h0100, \h0000, \h0000, \h0000 >>, << \h0200, \h0000, \h0000, \h0000 >> >>,
     << << \h00fc, \h0000, \h0000, \h0000 >>, << \h0100, \h0000, \h0000, \h0000 >>, << \h0200, \h0000, \h0000, \h0000 >>, << \h0400, \h0000, \h0000, \h0000 >> >>,
     << << \h00f8, \h0000, \h0000, \h0000 >>, << \h0200, \h0000, \h0000, \h0000 >>, << \h0400, \h0000, \h0000, \h0000 >>, << \h0800, \h0000, \h0000, \h0000 >> >>,
     << << \h00f0, \h0000, \h0000, \h0000 >>, << \h0400, \h0000, \h0000, \h0000 >>, << \h0800, \h0000, \h0000, \h0000 >>, << \h1000, \h0000, \h0000, \h0000 >> >>,
     << << \h00e0, \h0000, \h0000, \h0000 >>, << \h0800, \h0000, \h0000, \h0000 >>, << \h1000, \h0000, \h0000, \h0000 >>, << \h2000, \h0000, \h0000, \h0000 >> >>,
     << << \h00c0, \h0000, \h0000, \h0000 >>, << \h1000, \h0000, \h0000, \h0000 >>, << \h2000, \h0000, \h0000, \h0000 >>, << \h4000, \h0000, \h0000, \h0000 >> >>,
     << << \h0080, \h0000, \h0000, \h0000 >>, << \h2000, \h0000, \h0000, \h0000 >>, << \h4000, \h0000, \h0000, \h0000 >>, << \h8000, \h0000, \h0000, \h0000 >> >>,
     << << \h0000, \h0000, \h0000, \h0000 >>, << \h4000, \h0000, \h0000, \h0000 >>, << \h8000, \h0000, \h0000, \h0000 >>, << \h0000, \h0000, \h0000, \h0000 >> >>,
     << << \hfe00, \h0000, \h0000, \h0000 >>, << \h0000, \h0000, \h0000, \h0000 >>, << \h0000, \h0000, \h0000, \h0000 >>, << \h0000, \h0000, \h0000, \h0000 >> >>,
     << << \hfc00, \h0000, \h0000, \h0000 >>, << \h0000, \h0000, \h0000, \h0000 >>, << \h0000, \h0000, \h0000, \h0000 >>, << \h0000, \h0000, \h0000, \h0000 >> >>,
     << << \hf800, \h0000, \h0000, \h0000 >>, << \h0000, \h0000, \h0000, \h0000 >>, << \h0000, \h0000, \h0000, \h0000 >>, << \h0000, \h0000, \h0000, \h0000 >> >>,
     << << \hf000, \h0000, \h0000, \h0000 >>, << \h0000, \h0000, \h0000, \h0000 >>, << \h0000, \h0000, \h0000, \h0000 >>, << \h0000, \h0000, \h0000, \h0000 >> >>,
     << << \he000, \h0000, \h0000, \h0000 >>, << \h0000, \h0000, \h0000, \h0000 >>, << \h0000, \h0000, \h0000, \h0000 >>, << \h0000, \h0000, \h0000, \h0000 >> >>,
     << << \hc000, \h0000, \h0000, \h0000 >>, << \h0000, \h0000, \h0000, \h0000 >>, << \h0000, \h0000, \h0000, \h0000 >>, << \h0000, \h0000, \h0000, \h0000 >> >>,
     << << \h8000, \h0000, \h0000, \h0000 >>, << \h0000, \h0000, \h0000, \h0000 >>, << \h0000, \h0000, \h0000, \h0000 >>, << \h0000, \h0000, \h0000, \h0000 >> >>,
     << << \h0000, \h0000, \h0000, \h0000 >>, << \h0000, \h0000, \h0000, \h0000 >>, << \h0000, \h0000, \h0000, \h0000 >>, << \h0000, \h0000, \h0000, \h0000 >> >> >>

maskl_neg == Words(maskl_hex)

(* bit.h:278-343  masko[64][4] *)
masko_hex ==
  << << << \h0000, \h0000, \h0000, \h0000 >>, << \h0000, \h0000, \h0000, \h0000 >>, << \h0000, \h0000, \h0000, \h0000 >>, << \h0000, \h0000, \h0000, \h0000 >> >>,
     << << \h0000, \h0000, \h0000, \h0000 >>, << \h0000, \h0000, \h0000, \h0000 >>, << \h0000, \h0000, \h0000, \h0000 >>, << \h0000, \h0000, \h0000, \h0000 >> >>,
     << << \h0000, \h0000, \h0000, \h0002 >>, << \h0000, \h0000, \h0000, \h0000 >>, << \h0000, \h0000, \h0000, \h0000 >>, << \h0000, \h0000, \h0000, \h0000 >> >>,
     << << \h0000, \h0000, \h0000, \h0006 >>, << \h0000, \h0000, \h0000, \h0000 >>, << \h0000, \h0000, \h0000, \h0000 >>, << \h0000, \h0000, \h0000, \h0000 >> >>,
     << << \h0000, \h0000, \h0000, \h000e >>, << \h0000, \h0000, \h0000, \h0000 >>, << \h0000, \h0000, \h0000, \h0000 >>, << \h0000, \h0000, \h0000, \h0000 >> >>,
     << << \h0000, \h0000, \h0000, \h001e >>, << \h0000, \h0000, \h0000, \h0000 >>, << \h0000, \h0000, \h0000, \h0000 >>, << \h0000, \h0000, \h0000, \h0000 >> >>,
     << << \h0000, \h0000, \h0000, \h003e >>, << \h0000, \h0000, \h0000, \h0000 >>, << \h0000, \h0000, \h0000, \h0000 >>, << \h0000, \h0000, \h0000, \h0000 >> >>,
     << << \h0000, \h0000, \h0000, \h007e >>, << \h0000, \h0000, \h0000, \h0000 >>, << \h0000, \h0000, \h0000, \h0000 >>, << \h0000, \h0000, \h0000, \h0000 >> >>,
     << << \h0000, \h0000, \h0000, \h0000 >>, << \h0000, \h0000, \h0000, \h0000 >>, << \h0000, \h0000, \h0000, \h0000 >>, << \h0000, \h0000, \h0000, \h0000 >> >>,
     << << \h0000, \h0000, \h0000, \h0000 >>, << \h0000, \h0000, \h0000, \h0000 >>, << \h0000, \h0000, \h0000, \h0000 >>, << \h0000, \h0000, \h0000, \h0000 >> >>,
     << << \h0000, \h0000, \h0000, \h0200 >>, << \h0000, \h0000, \h0000, \h0000 >>, << \h0000, \h0000, \h0000, \h0000 >>, << \h0000, \h0000, \h0000, \h0000 >> >>,
     << << \h0000, \h0000, \h0000, \h0600 >>, << \h0000, \h0000, \h0000, \h0000 >>, << \h0000, \h0000, \h0000, \h0000 >>, << \h0000, \h0000, \h0000, \h0000 >> >>,
     << << \h0000, \h0000, \h0000, \h0e00 >>, << \h0000, \h0000, \h0000, \h0000 >>, << \h0000, \h0000, \h0000, \h0000 >>, << \h0000, \h0000, \h0000, \h0000 >> >>,
     << << \h0000, \h0000, \h0000, \h1e00 >>, << \h0000, \h0000, \h0000, \h0000 >>, << \h0000, \h0000, \h0000, \h0000 >>, << \h0000, \h0000, \h0000, \h0000 >> >>,
     << << \h0000, \h0000, \h0000, \h3e00 >>, << \h0000, \h0000, \h0000, \h0000 >>, << \h0000, \h0000, \h0000, \h0000 >>, << \h0000, \h0000, \h0000, \h0000 >> >>,
     << << \h0000, \h0000, \h0000, \h7e00 >>, << \h0000, \h0000, \h0000, \h0000 >>, << \h0000, \h0000, \h0000, \h0000 >>, << \h0000, \h0000, \h0000, \h0000 >> >>,
     << << \h0000, \h0000, \h0000, \h0000 >>, << \h0000, \h0000, \h0000, \h0200 >>, << \h0000, \h0000, \h0000, \h0100 >>, << \h0000, \h0000, \h0000, \h0000 >> >>,
     << << \h0000, \h0000, \h0000, \h0000 >>, << \h0000, \h0000, \h0000, \h0400 >>, << \h0000, \h0000, \h0000, \h0200 >>, << \h0000, \h0000, \h0000, \h0000 >> >>,
     << << \h0000, \h0000, \h0002, \h0000 >>, << \h0000, \h0000, \h0000, \h0800 >>, << \h0000, \h0000, \h0000, \h0400 >>, << \h0000, \h0000, \h0000, \h0200 >> >>,
     << << \h0000, \h0000, \h0006, \h0000 >>, << \h0000, \h0000, \h0000, \h1000 >>, << \h0000, \h0000, \h0000, \h0800 >>, << \h0000, \h0000, \h0000, \h0400 >> >>,
     << << \h0000, \h0000, \h000e, \h0000 >>, << \h0000, \h0000, \h0000, \h2000 >>, << \h0000, \h0000, \h0000, \h1000 >>, << \h0000, \h0000, \h0000, \h0800 >> >>,
     << << \h0000, \h0000, \h001e, \h0000 >>, << \h0000, \h0000, \h0000, \h4000 >>, << \h0000, \h0000, \h0000, \h2000 >>, << \h0000, \h0000, \h0000, \h1000 >> >>,
     << << \h0000, \h0000, \h003e, \h0000 >>, << \h0000, \h0000, \h0000, \h0000 >>, << \h0000, \h0000, \h0000, \h4000 >>, << \h0000, \h0000, \h0000, \h2000 >> >>,
     << << \h0000, \h0000, \h007e, \h0000 >>, << \h0000, \h0000, \h0000, \h0000 >>, << \h0000, \h0000, \h0000, \h8000 >>, << \h0000, \h0000, \h0000, \h4000 >> >>,
     << << \h0000, \h0000, \h0000, \h0000 >>, << \h0000, \h0000, \h0002, \h0400 >>, << \h0000, \h0000, \h0001, \h0100 >>, << \h0000, \h0000, \h0000, \h0000 >> >>,
     << << \h0000, \h0000, \h0000, \h0000 >>, << \h0000, \h0000, \h0004, \h0800 >>, << \h0000, \h0000, \h0002, \h0200 >>, << \h0000, \h0000, \h0000, \h0000 >> >>,
     << << \h0000, \h0000, \h0200, \h0000 >>, << \h0000, \h0000, \h0008, \h1000 >>, << \h0000, \h0000, \h0004, \h0400 >>, << \h0000, \h0000, \h0002, \h0000 >> >>,
     << << \h0000, \h0000, \h0600, \h0000 >>, << \h0000, \h0000, \h0010, \h2000 >>, << \h0000, \h0000, \h0008, \h0800 >>, << \h0000, \h0000, \h0004, \h0200 >> >>,
     << << \h0000, \h0000, \h0e00, \h0000 >>, << \h0000, \h0000, \h0020, \h4000 >>, << \h0000, \h0000, \h0010, \h1000 >>, << \h0000, \h0000, \h0008, \h0400 >> >>,
     << << \h0000, \h0000, \h1e00, \h0000 >>, << \h0000, \h0000, \h0040, \h0000 >>, << \h0000, \h0000, \h0020, \h2000 >>, << \h0000, \h0000, \h0010, \h0800 >> >>,
     << << \h0000, \h0000, \h3e00, \h0000 >>, << \h0000, \h0000, \h0000, \h0000 >>, << \h0000, \h0000, \h0040, \h4000 >>, << \h0000, \h0000, \h0020, \h1000 >> >>,
     << << \h0000, \h0000, \h7e00, \h0000 >>, << \h0000, \h0000, \h0000, \h0000 >>, << \h0000, \h0000, \h0080, \h8000 >>, << \h0000, \h0000, \h0040, \h2000 >> >>,
     << << \h0000, \h0000, \h0000, \h0000 >>, << \h0000, \h0000, \h0204, \h0800 >>, << \h0000, \h0000, \h0101, \h0100 >>, << \h0000, \h0000, \h0000, \h0000 >> >>,
     << << \h0000, \h0000, \h0000, \h0000 >>, << \h0000, \h0000, \h0408, \h1000 >>, << \h0000, \h0000, \h0202, \h0200 >>, << \h0000, \h0000, \h0000, \h0000 >> >>,
     << << \h0000, \h0002, \h0000, \h0000 >>, << \h0000, \h0000, \h0810, \h2000 >>, << \h0000, \h0000, \h0404, \h0400 >>, << \h0000, \h0000, \h0200, \h0000 >> >>,
     << << \h0000, \h0006, \h0000, \h0000 >>, << \h0000, \h0000, \h1020, \h4000 >>, << \h0000, \h0000, \h0808, \h0800 >>, << \h0000, \h0000, \h0402, \h0000 >> >>,
     << << \h0000, \h000e, \h0000, \h0000 >>, << \h0000, \h0000, \h2040, \h0000 >>, << \h0000, \h0000, \h1010, \h1000 >>, << \h0000, \h0000, \h0804, \h0200 >> >>,
     << << \h0000, \h001e, \h0000, \h0000 >>, << \h0000, \h0000, \h4000, \h0000 >>, << \h0000, \h0000, \h2020, \h2000 >>, << \h0000, \h0000, \h1008, \h0400 >> >>,
     << << \h0000, \h003e, \h0000, \h0000 >>, << \h0000, \h0000, \h0000, \h0000 >>, << \h0000, \h0000, \h4040, \h4000 >>, << \h0000, \h0000, \h2010, \h0800 >> >>,
     << << \h0000, \h007e, \h0000, \h0000 >>, << \h0000, \h0000, \h0000, \h0000 >>, << \h0000, \h0000, \h8080, \h8000 >>, << \h0000, \h0000, \h4020, \h1000 >> >>,
     << << \h0000, \h0000, \h0000, \h0000 >>, << \h0000, \h0002, \h0408, \h1000 >>, << \h0000, \h0001, \h0101, \h0100 >>, << \h0000, \h0000, \h0000, \h0000 >> >>,
     << << \h0000, \h0000, \h0000, \h0000 >>, << \h0000, \h0004, \h0810, \h2000 >>, << \h0000, \h0002, \h0202, \h0200 >>, << \h0000, \h0000, \h0000, \h0000 >> >>,
     << << \h0000, \h0200, \h0000, \h0000 >>, << \h0000, \h0008, \h1020, \h4000 >>, << \h0000, \h0004, \h0404, \h0400 >>, << \h0000, \h0002, \h0000, \h0000 >> >>,
     << << \h0000, \h0600, \h0000, \h0000 >>, << \h0000, \h0010, \h2040, \h0000 >>, << \h0000, \h0008, \h0808, \h0800 >>, << \h0000, \h0004, \h0200, \h0000 >> >>,
     << << \h0000, \h0e00, \h0000, \h0000 >>, << \h0000, \h0020, \h4000, \h0000 >>, << \h0000, \h0010, \h1010, \h1000 >>, << \h0000, \h0008, \h0402, \h0000 >> >>,
     << << \h0000, \h1e00, \h0000, \h0000 >>, << \h0000, \h0040, \h0000, \h0000 >>, << \h0000, \h0020, \h2020, \h2000 >>, << \h0000, \h0010, \h0804, \h0200 >> >>,
     << << \h0000, \h3e00, \h0000, \h0000 >>, << \h0000, \h0000, \h0000, \h0000 >>, << \h0000, \h0040, \h4040, \h4000 >>, << \h0000, \h0020, \h1008, \h0400 >> >>,
     << << \h0000, \h7e00, \h0000, \h0000 >>, << \h0000, \h0000, \h0000, \h0000 >>, << \h0000, \h0080, \h8080, \h8000 >>, << \h0000, \h0040, \h2010, \h0800 >> >>,
     << << \h0000, \h0000, \h0000, \h0000 >>, << \h0000, \h0204, \h0810, \h2000 >>, << \h0000, \h0101, \h0101, \h0100 >>, << \h0000, \h0000, \h0000, \h0000 >> >>,
     << << \h0000, \h0000, \h0000, \h0000 >>, << \h0000, \h0408, \h1020, \h4000 >>, << \h0000, \h0202, \h0202, \h0200 >>, << \h0000, \h0000, \h0000, \h0000 >> >>,
     << << \h0002, \h0000, \h0000, \h0000 >>, << \h0000, \h0810, \h2040, \h0000 >>, << \h0000, \h0404, \h0404, \h0400 >>, << \h0000, \h0200, \h0000, \h0000 >> >>,
     << << \h0006, \h0000, \h0000, \h0000 >>, << \h0000, \h1020, \h4000, \h0000 >>, << \h0000, \h0808, \h0808, \h0800 >>, << \h0000, \h0402, \h0000, \h0000 >> >>,
     << << \h000e, \h0000, \h0000, \h0000 >>, << \h0000, \h2040, \h0000, \h0000 >>, << \h0000, \h1010, \h1010, \h1000 >>, << \h0000, \h0804, \h0200, \h0000 >> >>,
     << << \h001e, \h0000, \h0000, \h0000 >>, << \h0000, \h4000, \h0000, \h0000 >>, << \h0000, \h2020, \h2020, \h2000 >>, << \h0000, \h1008, \h0402, \h0000 >> >>,
     << << \h003e, \h0000, \h0000, \h0000 >>, << \h0000, \h0000, \h0000, \h0000 >>, << \h0000, \h4040, \h4040, \h4000 >>, << \h0000, \h2010, \h0804, \h0200 >> >>,
     << << \h007e, \h0000, \h0000, \h0000 >>, << \h0000, \h0000, \h0000, \h0000 >>, << \h0000, \h8080, \h8080, \h8000 >>, << \h0000, \h4020, \h1008, \h0400 >> >>,
     << << \h0000, \h0000, \h0000, \h0000 >>, << \h0002, \h0408, \h1020, \h4000 >>, << \h0001, \h0101, \h0101, \h0100 >>, << \h0000, \h0000, \h0000, \h0000 >> >>,
     << << \h0000, \h0000, \h0000, \h0000 >>, << \h0004, \h0810, \h2040, \h0000 >>, << \h0002, \h0202, \h0202, \h0200 >>, << \h0000, \h0000, \h0000, \h0000 >> >>,
     << << \h0200, \h0000, \h0000, \h0000 >>, << \h0008, \h1020, \h4000, \h0000 >>, << \h0004, \h0404, \h0404, \h0400 >>, << \h0002, \h0000, \h0000, \h0000 >> >>,
     << << \h0600, \h0000, \h0000, \h0000 >>, << \h0010, \h2040, \h0000, \h0000 >>, << \h0008, \h0808, \h0808, \h0800 >>, << \h0004, \h0200, \h0000, \h0000 >> >>,
     << << \h0e00, \h0000, \h0000, \h0000 >>, << \h0020, \h4000, \h0000, \h0000 >>, << \h0010, \h1010, \h1010, \h1000 >>, << \h0008, \h0402, \h0000, \h0000 >> >>,
     << << \h1e00, \h0000, \h0000, \h0000 >>, << \h0040, \h0000, \h0000, \h0000 >>, << \h0020, \h2020, \h2020, \h2000 >>, << \h0010, \h0804, \h0200, \h0000 >> >>,
     << << \h3e00, \h0000, \h0000, \h0000 >>, << \h0000, \h0000, \h0000, \h0000 >>, << \h0040, \h4040, \h4040, \h4000 >>, << \h0020, \h1008, \h0402, \h0000 >> >>,
     << << \h7e00, \h0000, \h0000, \h0000 >>, << \h0000, \h0000, \h0000, \h0000 >>, << \h0080, \h8080, \h8080, \h8000 >>, << \h0040, \h2010, \h0804, \h0200 >> >> >>

masko_tab == Words(masko_hex)

(* bit.h:346-411  maskr[64][4] *)
maskr_hex ==
  << << << \h0000, \h0000, \h0000, \h0000 >>, << \h0000, \h0000, \h0000, \h0000 >>, << \h0000, \h0000, \h0000, \h0000 >>, << \h0000, \h0000, \h0000, \h0000 >> >>,
     << << \h0000, \h0000, \h0000, \h0001 >>, << \h0000, \h0000, \h0000, \h0000 >>, << \h0000, \h0000, \h0000, \h0000 >>, << \h0000, \h0000, \h0000, \h0000 >> >>,
     << << \h0000, \h0000, \h0000, \h0003 >>, << \h0000, \h0000, \h0000, \h0000 >>, << \h0000, \h0000, \h0000, \h0000 >>, << \h0000, \h0000, \h0000, \h0000 >> >>,
     << << \h0000, \h0000, \h0000, \h0007 >>, << \h0000, \h0000, \h0000, \h0000 >>, << \h0000, \h0000, \h0000, \h0000 >>, << \h0000, \h0000, \h0000, \h0000 >> >>,
     << << \h0000, \h0000, \h0000, \h000f >>, << \h0000, \h0000, \h0000, \h0000 >>, << \h0000, \h0000, \h0000, \h0000 >>, << \h0000, \h0000, \h0000, \h0000 >> >>,
     << << \h0000, \h0000, \h0000, \h001f >>, << \h0000, \h0000, \h0000, \h0000 >>, << \h0000, \h0000, \h0000, \h0000 >>, << \h0000, \h0000, \h0000, \h0000 >> >>,
     << << \h0000, \h0000, \h0000, \h003f >>, << \h0000, \h0000, \h0000, \h0000 >>, << \h0000, \h0000, \h0000, \h0000 >>, << \h0000, \h0000, \h0000, \h0000 >> >>,
     << << \h0000, \h0000, \h0000, \h007f >>, << \h0000, \h0000, \h0000, \h0000 >>, << \h0000, \h0000, \h0000, \h0000 >>, << \h0000, \h0000, \h0000, \h0000 >> >>,
     << << \h0000, \h0000, \h0000, \h0000 >>, << \h0000, \h0000, \h0000, \h0002 >>, << \h0000, \h0000, \h0000, \h0001 >>, << \h0000, \h0000, \h0000, \h0000 >> >>,
     << << \h0000, \h0000, \h0000, \h0100 >>, << \h0000, \h0000, \h0000, \h0004 >>, << \h0000, \h0000, \h0000, \h0002 >>, << \h0000, \h0000, \h0000, \h0001 >> >>,
     << << \h0000, \h0000, \h0000, \h0300 >>, << \h0000, \h0000, \h0000, \h0008 >>, << \h0000, \h0000, \h0000, \h0004 >>, << \h0000, \h0000, \h0000, \h0002 >> >>,
     << << \h0000, \h0000, \h0000, \h0700 >>, << \h0000, \h0000, \h0000, \h0010 >>, << \h0000, \h0000, \h0000, \h0008 >>, << \h0000, \h0000, \h0000, \h0004 >> >>,
     << << \h0000, \h0000, \h0000, \h0f00 >>, << \h0000, \h0000, \h0000, \h0020 >>, << \h0000, \h0000, \h0000, \h0010 >>, << \h0000, \h0000, \h0000, \h0008 >> >>,
     << << \h0000, \h0000, \h0000, \h1f00 >>, << \h0000, \h0000, \h0000, \h0040 >>, << \h0000, \h0000, \h0000, \h0020 >>, << \h0000, \h0000, \h0000, \h0010 >> >>,
     << << \h0000, \h0000, \h0000, \h3f00 >>, << \h0000, \h0000, \h0000, \h0080 >>, << \h0000, \h0000, \h0000, \h0040 >>, << \h0000, \h0000, \h0000, \h0020 >> >>,
     << << \h0000, \h0000, \h0000, \h7f00 >>, << \h0000, \h0000, \h0000, \h0000 >>, << \h0000, \h0000, \h0000, \h0080 >>, << \h0000, \h0000, \h0000, \h0040 >> >>,
     << << \h0000, \h0000, \h0000, \h0000 >>, << \h0000, \h0000, \h0000, \h0204 >>, << \h0000, \h0000, \h0000, \h0101 >>, << \h0000, \h0000, \h0000, \h0000 >> >>,
     << << \h0000, \h0000, \h0001, \h0000 >>, << \h0000, \h0000, \h0000, \h0408 >>, << \h0000, \h0000, \h0000, \h0202 >>, << \h0000, \h0000, \h0000, \h0100 >> >>,
     << << \h0000, \h0000, \h0003, \h0000 >>, << \h0000, \h0000, \h0000, \h0810 >>, << \h0000, \h0000, \h0000, \h0404 >>, << \h0000, \h0000, \h0000, \h0201 >> >>,
     << << \h0000, \h0000, \h0007, \h0000 >>, << \h0000, \h0000, \h0000, \h1020 >>, << \h0000, \h0000, \h0000, \h0808 >>, << \h0000, \h0000, \h0000, \h0402 >> >>,
     << << \h0000, \h0000, \h000f, \h0000 >>, << \h0000, \h0000, \h0000, \h2040 >>, << \h0000, \h0000, \h0000, \h1010 >>, << \h0000, \h0000, \h0000, \h0804 >> >>,
     << << \h0000, \h0000, \h001f, \h0000 >>, << \h0000, \h0000, \h0000, \h4080 >>, << \h0000, \h0000, \h0000, \h2020 >>, << \h0000, \h0000, \h0000, \h1008 >> >>,
     << << \h0000, \h0000, \h003f, \h0000 >>, << \h0000, \h0000, \h0000, \h8000 >>, << \h0000, \h0000, \h0000, \h4040 >>, << \h0000, \h0000, \h0000, \h2010 >> >>,
     << << \h0000, \h0000, \h007f, \h0000 >>, << \h0000, \h0000, \h0000, \h0000 >>, << \h0000, \h0000, \h0000, \h8080 >>, << \h0000, \h0000, \h0000, \h4020 >> >>,
     << << \h0000, \h0000, \h0000, \h0000 >>, << \h0000, \h0000, \h0002, \h0408 >>, << \h0000, \h0000, \h0001, \h0101 >>, << \h0000, \h0000, \h0000, \h0000 >> >>,
     << << \h0000, \h0000, \h0100, \h0000 >>, << \h0000, \h0000, \h0004, \h0810 >>, << \h0000, \h0000, \h0002, \h0202 >>, << \h0000, \h0000, \h0001, \h0000 >> >>,
     << << \h0000, \h0000, \h0300, \h0000 >>, << \h0000, \h0000, \h0008, \h1020 >>, << \h0000, \h0000, \h0004, \h0404 >>, << \h0000, \h0000, \h0002, \h0100 >> >>,
     << << \h0000, \h0000, \h0700, \h0000 >>, << \h0000, \h0000, \h0010, \h2040 >>, << \h0000, \h0000, \h0008, \h0808 >>, << \h0000, \h0000, \h0004, \h0201 >> >>,
     << << \h0000, \h0000, \h0f00, \h0000 >>, << \h0000, \h0000, \h0020, \h4080 >>, << \h0000, \h0000, \h0010, \h1010 >>, << \h0000, \h0000, \h0008, \h0402 >> >>,
     << << \h0000, \h0000, \h1f00, \h0000 >>, << \h0000, \h0000, \h0040, \h8000 >>, << \h0000, \h0000, \h0020, \h2020 >>, << \h0000, \h0000, \h0010, \h0804 >> >>,
     << << \h0000, \h0000, \h3f00, \h0000 >>, << \h0000, \h0000, \h0080, \h0000 >>, << \h0000, \h0000, \h0040, \h4040 >>, << \h0000, \h0000, \h0020, \h1008 >> >>,
     << << \h0000, \h0000, \h7f00, \h0000 >>, << \h0000, \h0000, \h0000, \h0000 >>, << \h0000, \h0000, \h0080, \h8080 >>, << \h0000, \h0000, \h0040, \h2010 >> >>,
     << << \h0000, \h0000, \h0000, \h0000 >>, << \h0000, \h0000, \h0204, \h0810 >>, << \h0000, \h0000, \h0101, \h0101 >>, << \h0000, \h0000, \h0000, \h0000 >> >>,
     << << \h0000, \h0001, \h0000, \h0000 >>, << \h0000, \h0000, \h0408, \h1020 >>, << \h0000, \h0000, \h0202, \h0202 >>, << \h0000, \h0000, \h0100, \h0000 >> >>,
     << << \h0000, \h0003, \h0000, \h0000 >>, << \h0000, \h0000, \h0810, \h2040 >>, << \h0000, \h0000, \h0404, \h0404 >>, << \h0000, \h0000, \h0201, \h0000 >> >>,
     << << \h0000, \h0007, \h0000, \h0000 >>, << \h0000, \h0000, \h1020, \h4080 >>, << \h0000, \h0000, \h0808, \h0808 >>, << \h0000, \h0000, \h0402, \h0100 >> >>,
     << << \h0000, \h000f, \h0000, \h0000 >>, << \h0000, \h0000, \h2040, \h8000 >>, << \h0000, \h0000, \h1010, \h1010 >>, << \h0000, \h0000, \h0804, \h0201 >> >>,
     << << \h0000, \h001f, \h0000, \h0000 >>, << \h0000, \h0000, \h4080, \h0000 >>, << \h0000, \h0000, \h2020, \h2020 >>, << \h0000, \h0000, \h1008, \h0402 >> >>,
     << << \h0000, \h003f, \h0000, \h0000 >>, << \h0000, \h0000, \h8000, \h0000 >>, << \h0000, \h0000, \h4040, \h4040 >>, << \h0000, \h0000, \h2010, \h0804 >> >>,
     << << \h0000, \h007f, \h0000, \h0000 >>, << \h0000, \h0000, \h0000, \h0000 >>, << \h0000, \h0000, \h8080, \h8080 >>, << \h0000, \h0000, \h4020, \h1008 >> >>,
     << << \h0000, \h0000, \h0000, \h0000 >>, << \h0000, \h0002, \h0408, \h1020 >>, << \h0000, \h0001, \h0101, \h0101 >>, << \h0000, \h0000, \h0000, \h0000 >> >>,
     << << \h0000, \h0100, \h0000, \h0000 >>, << \h0000, \h0004, \h0810, \h2040 >>, << \h0000, \h0002, \h0202, \h0202 >>, << \h0000, \h0001, \h0000, \h0000 >> >>,
     << << \h0000, \h0300, \h0000, \h0000 >>, << \h0000, \h0008, \h1020, \h4080 >>, << \h0000, \h0004, \h0404, \h0404 >>, << \h0000, \h0002, \h0100, \h0000 >> >>,
     << << \h0000, \h0700, \h0000, \h0000 >>, << \h0000, \h0010, \h2040, \h8000 >>, << \h0000, \h0008, \h0808, \h0808 >>, << \h0000, \h0004, \h0201, \h0000 >> >>,
     << << \h0000, \h0f00, \h0000, \h0000 >>, << \h0000, \h0020, \h4080, \h0000 >>, << \h0000, \h0010, \h1010, \h1010 >>, << \h0000, \h0008, \h0402, \h0100 >> >>,
     << << \h0000, \h1f00, \h0000, \h0000 >>, << \h0000, \h0040, \h8000, \h0000 >>, << \h0000, \h0020, \h2020, \h2020 >>, << \h0000, \h0010, \h0804, \h0201 >> >>,
     << << \h0000, \h3f00, \h0000, \h0000 >>, << \h0000, \h0080, \h0000, \h0000 >>, << \h0000, \h0040, \h4040, \h4040 >>, << \h0000, \h0020, \h1008, \h0402 >> >>,
     << << \h0000, \h7f00, \h0000, \h0000 >>, << \h0000, \h0000, \h0000, \h0000 >>, << \h0000, \h0080, \h8080, \h8080 >>, << \h0000, \h0040, \h2010, \h0804 >> >>,
     << << \h0000, \h0000, \h0000, \h0000 >>, << \h0000, \h0204, \h0810, \h2040 >>, << \h0000, \h0101, \h0101, \h0101 >>, << \h0000, \h0000, \h0000, \h0000 >> >>,
     << << \h0001, \h0000, \h0000, \h0000 >>, << \h0000, \h0408, \h1020, \h4080 >>, << \h0000, \h0202, \h0202, \h0202 >>, << \h0000, \h0100, \h0000, \h0000 >> >>,
     << << \h0003, \h0000, \h0000, \h0000 >>, << \h0000, \h0810, \h2040, \h8000 >>, << \h0000, \h0404, \h0404, \h0404 >>, << \h0000, \h0201, \h0000, \h0000 >> >>,
     << << \h0007, \h0000, \h0000, \h0000 >>, << \h0000, \h1020, \h4080, \h0000 >>, << \h0000, \h0808, \h0808, \h0808 >>, << \h0000, \h0402, \h0100, \h0000 >> >>,
     << << \h000f, \h0000, \h0000, \h0000 >>, << \h0000, \h2040, \h8000, \h0000 >>, << \h0000, \h1010, \h1010, \h1010 >>, << \h0000, \h0804, \h0201, \h0000 >> >>,
     << << \h001f, \h0000, \h0000, \h0000 >>, << \h0000, \h4080, \h0000, \h0000 >>, << \h0000, \h2020, \h2020, \h2020 >>, << \h0000, \h1008, \h0402, \h0100 >> >>,
     << << \h003f, \h0000, \h0000, \h0000 >>, << \h0000, \h8000, \h0000, \h0000 >>, << \h0000, \h4040, \h4040, \h4040 >>, << \h0000, \h2010, \h0804, \h0201 >> >>,
     << << \h007f, \h0000, \h0000, \h0000 >>, << \h0000, \h0000, \h0000, \h0000 >>, << \h0000, \h8080, \h8080, \h8080 >>, << \h0000, \h4020, \h1008, \h0402 >> >>,
     << << \h0000, \h0000, \h0000, \h0000 >>, << \h0002, \h0408, \h1020, \h4080 >>, << \h0001, \h0101, \h0101, \h0101 >>, << \h0000, \h0000, \h0000, \h0000 >> >>,
     << << \h0100, \h0000, \h0000, \h0000 >>, << \h0004, \h0810, \h2040, \h8000 >>, << \h0002, \h0202, \h0202, \h0202 >>, << \h0001, \h0000, \h0000, \h0000 >> >>,
     << << \h0300, \h0000, \h0000, \h0000 >>, << \h0008, \h1020, \h4080, \h0000 >>, << \h0004, \h0404, \h0404, \h0404 >>, << \h0002, \h0100, \h0000, \h0000 >> >>,
     << << \h0700, \h0000, \h0000, \h0000 >>, << \h0010, \h2040, \h8000, \h0000 >>, << \h0008, \h0808, \h0808, \h0808 >>, << \h0004, \h0201, \h0000, \h0000 >> >>,
     << << \h0f00, \h0000, \h0000, \h0000 >>, << \h0020, \h4080, \h0000, \h0000 >>, << \h0010, \h1010, \h1010, \h1010 >>, << \h0008, \h0402, \h0100, \h0000 >> >>,
     << << \h1f00, \h0000, \h0000, \h0000 >>, << \h0040, \h8000, \h0000, \h0000 >>, << \h0020, \h2020, \h2020, \h2020 >>, << \h0010, \h0804, \h0201, \h0000 >> >>,
     << << \h3f00, \h0000, \h0000, \h0000 >>, << \h0080, \h0000, \h0000, \h0000 >>, << \h0040, \h4040, \h4040, \h4040 >>, << \h0020, \h1008, \h0402, \h0100 >> >>,
     << << \h7f00, \h0000, \h0000, \h0000 >>, << \h0000, \h0000, \h0000, \h0000 >>, << \h0080, \h8080, \h8080, \h8080 >>, << \h0040, \h2010, \h0804, \h0201 >> >> >>

maskr_tab == Words(maskr_hex)

(* count_last_flip_sse.c:115-180  mask_d_v[64], lanes 0..2; the fourth lane is the
   literal 0 on every row and is supplied by mask_d_v. *)
mask_d_v_hex ==
  << << << \h0000, \h0000, \h0000, \h0001 >>, << \h8040, \h2010, \h0804, \h0201 >>, << \h0101, \h0101, \h0101, \h0101 >> >>,
     << << \h0000, \h0000, \h0000, \h0102 >>, << \h0080, \h4020, \h1008, \h0402 >>, << \h0202, \h0202, \h0202, \h0202 >> >>,
     << << \h0000, \h0000, \h0001, \h0204 >>, << \h0000, \h8040, \h2010, \h0804 >>, << \h0404, \h0404, \h0404, \h0404 >> >>,
     << << \h0000, \h0000, \h0102, \h0408 >>, << \h0000, \h0080, \h4020, \h1008 >>, << \h0808, \h0808, \h0808, \h0808 >> >>,
     << << \h0000, \h0001, \h0204, \h0810 >>, << \h0000, \h0000, \h8040, \h2010 >>, << \h1010, \h1010, \h1010, \h1010 >> >>,
     << << \h0000, \h0102, \h0408, \h1020 >>, << \h0000, \h0000, \h0080, \h4020 >>, << \h2020, \h2020, \h2020, \h2020 >> >>,
     << << \h0001, \h0204, \h0810, \h2040 >>, << \h0000, \h0000, \h0000, \h8040 >>, << \h4040, \h4040, \h4040, \h4040 >> >>,
     << << \h0102, \h0408, \h1020, \h4080 >>, << \h0000, \h0000, \h0000, \h0080 >>, << \h8080, \h8080, \h8080, \h8080 >> >>,
     << << \h0000, \h0000, \h0000, \h0102 >>, << \h4020, \h1008, \h0402, \h0100 >>, << \h0101, \h0101, \h0101, \h0101 >> >>,
     << << \h0000, \h0000, \h0001, \h0204 >>, << \h8040, \h2010, \h0804, \h0201 >>, << \h0202, \h0202, \h0202, \h0202 >> >>,
     << << \h0000, \h0000, \h0102, \h0408 >>, << \h0080, \h4020, \h1008, \h0402 >>, << \h0404, \h0404, \h0404, \h0404 >> >>,
     << << \h0000, \h0001, \h0204, \h0810 >>, << \h0000, \h8040, \h2010, \h0804 >>, << \h0808, \h0808, \h0808, \h0808 >> >>,
     << << \h0000, \h0102, \h0408, \h1020 >>, << \h0000, \h0080, \h4020, \h1008 >>, << \h1010, \h1010, \h1010, \h1010 >> >>,
     << << \h0001, \h0204, \h0810, \h2040 >>, << \h0000, \h0000, \h8040, \h2010 >>, << \h2020, \h2020, \h2020, \h2020 >> >>,
     << << \h0102, \h0408, \h1020, \h4080 >>, << \h0000, \h0000, \h0080, \h4020 >>, << \h4040, \h4040, \h4040, \h4040 >> >>,
     << << \h0204, \h0810, \h2040, \h8000 >>, << \h0000, \h0000, \h0000, \h8040 >>, << \h8080, \h8080, \h8080, \h8080 >> >>,
     << << \h0000, \h0000, \h0001, \h0204 >>, << \h2010, \h0804, \h0201, \h0000 >>, << \h0101, \h0101, \h0101, \h0101 >> >>,
     << << \h0000, \h0000, \h0102, \h0408 >>, << \h4020, \h1008, \h0402, \h0100 >>, << \h0202, \h0202, \h0202, \h0202 >> >>,
     << << \h0000, \h0001, \h0204, \h0810 >>, << \h8040, \h2010, \h0804, \h0201 >>, << \h0404, \h0404, \h0404, \h0404 >> >>,
     << << \h0000, \h0102, \h0408, \h1020 >>, << \h0080, \h4020, \h1008, \h0402 >>, << \h0808, \h0808, \h0808, \h0808 >> >>,
     << << \h0001, \h0204, \h0810, \h2040 >>, << \h0000, \h8040, \h2010, \h0804 >>, << \h1010, \h1010, \h1010, \h1010 >> >>,
     << << \h0102, \h0408, \h1020, \h4080 >>, << \h0000, \h0080, \h4020, \h1008 >>, << \h2020, \h2020, \h2020, \h2020 >> >>,
     << << \h0204, \h0810, \h2040, \h8000 >>, << \h0000, \h0000, \h8040, \h2010 >>, << \h4040, \h4040, \h4040, \h4040 >> >>,
     << << \h0408, \h1020, \h4080, \h0000 >>, << \h0000, \h0000, \h0080, \h4020 >>, << \h8080, \h8080, \h8080, \h8080 >> >>,
     << << \h0000, \h0000, \h0102, \h0408 >>, << \h1008, \h0402, \h0100, \h0000 >>, << \h0101, \h0101, \h0101, \h0101 >> >>,
     << << \h0000, \h0001, \h0204, \h0810 >>, << \h2010, \h0804, \h0201, \h0000 >>, << \h0202, \h0202, \h0202, \h0202 >> >>,
     << << \h0000, \h0102, \h0408, \h1020 >>, << \h4020, \h1008, \h0402, \h0100 >>, << \h0404, \h0404, \h0404, \h0404 >> >>,
     << << \h0001, \h0204, \h0810, \h2040 >>, << \h8040, \h2010, \h0804, \h0201 >>, << \h0808, \h0808, \h0808, \h0808 >> >>,
     << << \h0102, \h0408, \h1020, \h4080 >>, << \h0080, \h4020, \h1008, \h0402 >>, << \h1010, \h1010, \h1010, \h1010 >> >>,
     << << \h0204, \h0810, \h2040, \h8000 >>, << \h0000, \h8040, \h2010, \h0804 >>, << \h2020, \h2020, \h2020, \h2020 >> >>,
     << << \h0408, \h1020, \h4080, \h0000 >>, << \h0000, \h0080, \h4020, \h1008 >>, << \h4040, \h4040, \h4040, \h4040 >> >>,
     << << \h0810, \h2040, \h8000, \h0000 >>, << \h0000, \h0000, \h8040, \h2010 >>, << \h8080, \h8080, \h8080, \h8080 >> >>,
     << << \h0000, \h0001, \h0204, \h0810 >>, << \h0804, \h0201, \h0000, \h0000 >>, << \h0101, \h0101, \h0101, \h0101 >> >>,
     << << \h0000, \h0102, \h0408, \h1020 >>, << \h1008, \h0402, \h0100, \h0000 >>, << \h0202, \h0202, \h0202, \h0202 >> >>,
     << << \h0001, \h0204, \h0810, \h2040 >>, << \h2010, \h0804, \h0201, \h0000 >>, << \h0404, \h0404, \h0404, \h0404 >> >>,
     << << \h0102, \h0408, \h1020, \h4080 >>, << \h4020, \h1008, \h0402, \h0100 >>, << \h0808, \h0808, \h0808, \h0808 >> >>,
     << << \h0204, \h0810, \h2040, \h8000 >>, << \h8040, \h2010, \h0804, \h0201 >>, << \h1010, \h1010, \h1010, \h1010 >> >>,
     << << \h0408, \h1020, \h4080, \h0000 >>, << \h0080, \h4020, \h1008, \h0402 >>, << \h2020, \h2020, \h2020, \h2020 >> >>,
     << << \h0810, \h2040, \h8000, \h0000 >>, << \h0000, \h8040, \h2010, \h0804 >>, << \h4040, \h4040, \h4040, \h4040 >> >>,
     << << \h1020, \h4080, \h0000, \h0000 >>, << \h0000, \h0080, \h4020, \h1008 >>, << \h8080, \h8080, \h8080, \h8080 >> >>,
     << << \h0000, \h0102, \h0408, \h1020 >>, << \h0402, \h0100, \h0000, \h0000 >>, << \h0101, \h0101, \h0101, \h0101 >> >>,
     << << \h0001, \h0204, \h0810, \h2040 >>, << \h0804, \h0201, \h0000, \h0000 >>, << \h0202, \h0202, \h0202, \h0202 >> >>,
     << << \h0102, \h0408, \h1020, \h4080 >>, << \h1008, \h0402, \h0100, \h0000 >>, << \h0404, \h0404, \h0404, \h0404 >> >>,
     << << \h0204, \h0810, \h2040, \h8000 >>, << \h2010, \h0804, \h0201, \h0000 >>, << \h0808, \h0808, \h0808, \h0808 >> >>,
     << << \h0408, \h1020, \h4080, \h0000 >>, << \h4020, \h1008, \h0402, \h0100 >>, << \h1010, \h1010, \h1010, \h1010 >> >>,
     << << \h0810, \h2040, \h8000, \h0000 >>, << \h8040, \h2010, \h0804, \h0201 >>, << \h2020, \h2020, \h2020, \h2020 >> >>,
     << << \h1020, \h4080, \h0000, \h0000 >>, << \h0080, \h4020, \h1008, \h0402 >>, << \h4040, \h4040, \h4040, \h4040 >> >>,
     << << \h2040, \h8000, \h0000, \h0000 >>, << \h0000, \h8040, \h2010, \h0804 >>, << \h8080, \h8080, \h8080, \h8080 >> >>,
     << << \h0001, \h0204, \h0810, \h2040 >>, << \h0201, \h0000, \h0000, \h0000 >>, << \h0101, \h0101, \h0101, \h0101 >> >>,
     << << \h0102, \h0408, \h1020, \h4080 >>, << \h0402, \h0100, \h0000, \h0000 >>, << \h0202, \h0202, \h0202, \h0202 >> >>,
     << << \h0204, \h0810, \h2040, \h8000 >>, << \h0804, \h0201, \h0000, \h0000 >>, << \h0404, \h0404, \h0404, \h0404 >> >>,
     << << \h0408, \h1020, \h4080, \h0000 >>, << \h1008, \h0402, \h0100, \h0000 >>, << \h0808, \h0808, \h0808, \h0808 >> >>,
     << << \h0810, \h2040, \h8000, \h0000 >>, << \h2010, \h0804, \h0201, \h0000 >>, << \h1010, \h1010, \h1010, \h1010 >> >>,
     << << \h1020, \h4080, \h0000, \h0000 >>, << \h4020, \h1008, \h0402, \h0100 >>, << \h2020, \h2020, \h2020, \h2020 >> >>,
     << << \h2040, \h8000, \h0000, \h0000 >>, << \h8040, \h2010, \h0804, \h0201 >>, << \h4040, \h4040, \h4040, \h4040 >> >>,
     << << \h4080, \h0000, \h0000, \h0000 >>, << \h0080, \h4020, \h1008, \h0402 >>, << \h8080, \h8080, \h8080, \h8080 >> >>,
     << << \h0102, \h0408, \h1020, \h4080 >>, << \h0100, \h0000, \h0000, \h0000 >>, << \h0101, \h0101, \h0101, \h0101 >> >>,
     << << \h0204, \h0810, \h2040, \h8000 >>, << \h0201, \h0000, \h0000, \h0000 >>, << \h0202, \h0202, \h0202, \h0202 >> >>,
     << << \h0408, \h1020, \h4080, \h0000 >>, << \h0402, \h0100, \h0000, \h0000 >>, << \h0404, \h0404, \h0404, \h0404 >> >>,
     << << \h0810, \h2040, \h8000, \h0000 >>, << \h0804, \h0201, \h0000, \h0000 >>, << \h0808, \h0808, \h0808, \h0808 >> >>,
     << << \h1020, \h4080, \h0000, \h0000 >>, << \h1008, \h0402, \h0100, \h0000 >>, << \h1010, \h1010, \h1010, \h1010 >> >>,
     << << \h2040, \h8000, \h0000, \h0000 >>, << \h2010, \h0804, \h0201, \h0000 >>, << \h2020, \h2020, \h2020, \h2020 >> >>,
     << << \h4080, \h0000, \h0000, \h0000 >>, << \h4020, \h1008, \h0402, \h0100 >>, << \h4040, \h4040, \h4040, \h4040 >> >>,
     << << \h8000, \h0000, \h0000, \h0000 >>, << \h8040, \h2010, \h0804, \h0201 >>, << \h8080, \h8080, \h8080, \h8080 >> >> >>

mask_d_v_tab == Words(mask_d_v_hex)

(* count_last_flip_sse.c:182-215  mask_d[64], two lanes *)
mask_d_hex ==
  << << << \h0000, \h0000, \h0000, \h0001 >>, << \h8040, \h2010, \h0804, \h0201 >> >>,
     << << \h0000, \h0000, \h0000, \h0102 >>, << \h0080, \h4020, \h1008, \h0402 >> >>,
     << << \h0000, \h0000, \h0001, \h0204 >>, << \h0000, \h8040, \h2010, \h0804 >> >>,
     << << \h0000, \h0000, \h0102, \h0408 >>, << \h0000, \h0080, \h4020, \h1008 >> >>,
     << << \h0000, \h0001, \h0204, \h0810 >>, << \h0000, \h0000, \h8040, \h2010 >> >>,
     << << \h0000, \h0102, \h0408, \h1020 >>, << \h0000, \h0000, \h0080, \h4020 >> >>,
     << << \h0001, \h0204, \h0810, \h2040 >>, << \h0000, \h0000, \h0000, \h8040 >> >>,
     << << \h0102, \h0408, \h1020, \h4080 >>, << \h0000, \h0000, \h0000, \h0080 >> >>,
     << << \h0000, \h0000, \h0000, \h0102 >>, << \h4020, \h1008, \h0402, \h0100 >> >>,
     << << \h0000, \h0000, \h0001, \h0204 >>, << \h8040, \h2010, \h0804, \h0201 >> >>,
     << << \h0000, \h0000, \h0102, \h0408 >>, << \h0080, \h4020, \h1008, \h0402 >> >>,
     << << \h0000, \h0001, \h0204, \h0810 >>, << \h0000, \h8040, \h2010, \h0804 >> >>,
     << << \h0000, \h0102, \h0408, \h1020 >>, << \h0000, \h0080, \h4020, \h1008 >> >>,
     << << \h0001, \h0204, \h0810, \h2040 >>, << \h0000, \h0000, \h8040, \h2010 >> >>,
     << << \h0102, \h0408, \h1020, \h4080 >>, << \h0000, \h0000, \h0080, \h4020 >> >>,
     << << \h0204, \h0810, \h2040, \h8000 >>, << \h0000, \h0000, \h0000, \h8040 >> >>,
     << << \h0000, \h0000, \h0001, \h0204 >>, << \h2010, \h0804, \h0201, \h0000 >> >>,
     << << \h0000, \h0000, \h0102, \h0408 >>, << \h4020, \h1008, \h0402, \h0100 >> >>,
     << << \h0000, \h0001, \h0204, \h0810 >>, << \h8040, \h2010, \h0804, \h0201 >> >>,
     << << \h0000, \h0102, \h0408, \h1020 >>, << \h0080, \h4020, \h1008, \h0402 >> >>,
     << << \h0001, \h0204, \h0810, \h2040 >>, << \h0000, \h8040, \h2010, \h0804 >> >>,
     << << \h0102, \h0408, \h1020, \h4080 >>, << \h0000, \h0080, \h4020, \h1008 >> >>,
     << << \h0204, \h0810, \h2040, \h8000 >>, << \h0000, \h0000, \h8040, \h2010 >> >>,
     << << \h0408, \h1020, \h4080, \h0000 >>, << \h0000, \h0000, \h0080, \h4020 >> >>,
     << << \h0000, \h0000, \h0102, \h0408 >>, << \h1008, \h0402, \h0100, \h0000 >> >>,
     << << \h0000, \h0001, \h0204, \h0810 >>, << \h2010, \h0804, \h0201, \h0000 >> >>,
     << << \h0000, \h0102, \h0408, \h1020 >>, << \h4020, \h1008, \h0402, \h0100 >> >>,
     << << \h0001, \h0204, \h0810, \h2040 >>, << \h8040, \h2010, \h0804, \h0201 >> >>,
     << << \h0102, \h0408, \h1020, \h4080 >>, << \h0080, \h4020, \h1008, \h0402 >> >>,
     << << \h0204, \h0810, \h2040, \h8000 >>, << \h0000, \h8040, \h2010, \h0804 >> >>,
     << << \h0408, \h1020, \h4080, \h0000 >>, << \h0000, \h0080, \h4020, \h1008 >> >>,
     << << \h0810, \h2040, \h8000, \h0000 >>, << \h0000, \h0000, \h8040, \h2010 >> >>,
     << << \h0000, \h0001, \h0204, \h0810 >>, << \h0804, \h0201, \h0000, \h0000 >> >>,
     << << \h0000, \h0102, \h0408, \h1020 >>, << \h1008, \h0402, \h0100, \h0000 >> >>,
     << << \h0001, \h0204, \h0810, \h2040 >>, << \h2010, \h0804, \h0201, \h0000 >> >>,
     << << \h0102, \h0408, \h1020, \h4080 >>, << \h4020, \h1008, \h0402, \h0100 >> >>,
     << << \h0204, \h0810, \h2040, \h8000 >>, << \h8040, \h2010, \h0804, \h0201 >> >>,
     << << \h0408, \h1020, \h4080, \h0000 >>, << \h0080, \h4020, \h1008, \h0402 >> >>,
     << << \h0810, \h2040, \h8000, \h0000 >>, << \h0000, \h8040, \h2010, \h0804 >> >>,
     << << \h1020, \h4080, \h0000, \h0000 >>, << \h0000, \h0080, \h4020, \h1008 >> >>,
     << << \h0000, \h0102, \h0408, \h1020 >>, << \h0402, \h0100, \h0000, \h0000 >> >>,
     << << \h0001, \h0204, \h0810, \h2040 >>, << \h0804, \h0201, \h0000, \h0000 >> >>,
     << << \h0102, \h0408, \h1020, \h4080 >>, << \h1008, \h0402, \h0100, \h0000 >> >>,
     << << \h0204, \h0810, \h2040, \h8000 >>, << \h2010, \h0804, \h0201, \h0000 >> >>,
     << << \h0408, \h1020, \h4080, \h0000 >>, << \h4020, \h1008, \h0402, \h0100 >> >>,
     << << \h0810, \h2040, \h8000, \h0000 >>, << \h8040, \h2010, \h0804, \h0201 >> >>,
     << << \h1020, \h4080, \h0000, \h0000 >>, << \h0080, \h4020, \h1008, \h0402 >> >>,
     << << \h2040, \h8000, \h0000, \h0000 >>, << \h0000, \h8040, \h2010, \h0804 >> >>,
     << << \h0001, \h0204, \h0810, \h2040 >>, << \h0201, \h0000, \h0000, \h0000 >> >>,
     << << \h0102, \h0408, \h1020, \h4080 >>, << \h0402, \h0100, \h0000, \h0000 >> >>,
     << << \h0204, \h0810, \h2040, \h8000 >>, << \h0804, \h0201, \h0000, \h0000 >> >>,
     << << \h0408, \h1020, \h4080, \h0000 >>, << \h1008, \h0402, \h0100, \h0000 >> >>,
     << << \h0810, \h2040, \h8000, \h0000 >>, << \h2010, \h0804, \h0201, \h0000 >> >>,
     << << \h1020, \h4080, \h0000, \h0000 >>, << \h4020, \h1008, \h0402, \h0100 >> >>,
     << << \h2040, \h8000, \h0000, \h0000 >>, << \h8040, \h2010, \h0804, \h0201 >> >>,
     << << \h4080, \h0000, \h0000, \h0000 >>, << \h0080, \h4020, \h1008, \h0402 >> >>,
     << << \h0102, \h0408, \h1020, \h4080 >>, << \h0100, \h0000, \h0000, \h0000 >> >>,
     << << \h0204, \h0810, \h2040, \h8000 >>, << \h0201, \h0000, \h0000, \h0000 >> >>,
     << << \h0408, \h1020, \h4080, \h0000 >>, << \h0402, \h0100, \h0000, \h0000 >> >>,
     << << \h0810, \h2040, \h8000, \h0000 >>, << \h0804, \h0201, \h0000, \h0000 >> >>,
     << << \h1020, \h4080, \h0000, \h0000 >>, << \h1008, \h0402, \h0100, \h0000 >> >>,
     << << \h2040, \h8000, \h0000, \h0000 >>, << \h2010, \h0804, \h0201, \h0000 >> >>,
     << << \h4080, \h0000, \h0000, \h0000 >>, << \h4020, \h1008, \h0402, \h0100 >> >>,
     << << \h8000, \h0000, \h0000, \h0000 >>, << \h8040, \h2010, \h0804, \h0201 >> >> >>

mask_d_tab == Words(mask_d_hex)

(* count_last_flip_sse.c:30-111  COUNT_FLIP[8][256] *)
COUNT_FLIP_tab ==
  << <<  0,  0,  0,  0,  2,  2,  0,  0,  4,  4,  0,  0,  2,  2,  0,  0,  6,  6,  0,  0,  2,  2,  0,  0,  4,  4,  0,  0,  2,  2,  0,  0,
         8,  8,  0,  0,  2,  2,  0,  0,  4,  4,  0,  0,  2,  2,  0,  0,  6,  6,  0,  0,  2,  2,  0,  0,  4,  4,  0,  0,  2,  2,  0,  0,
        10, 10,  0,  0,  2,  2,  0,  0,  4,  4,  0,  0,  2,  2,  0,  0,  6,  6,  0,  0,  2,  2,  0,  0,  4,  4,  0,  0,  2,  2,  0,  0,
         8,  8,  0,  0,  2,  2,  0,  0,  4,  4,  0,  0,  2,  2,  0,  0,  6,  6,  0,  0,  2,  2,  0,  0,  4,  4,  0,  0,  2,  2,  0,  0,
        12, 12,  0,  0,  2,  2,  0,  0,  4,  4,  0,  0,  2,  2,  0,  0,  6,  6,  0,  0,  2,  2,  0,  0,  4,  4,  0,  0,  2,  2,  0,  0,
         8,  8,  0,  0,  2,  2,  0,  0,  4,  4,  0,  0,  2,  2,  0,  0,  6,  6,  0,  0,  2,  2,  0,  0,  4,  4,  0,  0,  2,  2,  0,  0,
        10, 10,  0,  0,  2,  2,  0,  0,  4,  4,  0,  0,  2,  2,  0,  0,  6,  6,  0,  0,  2,  2,  0,  0,  4,  4,  0,  0,  2,  2,  0,  0,
         8,  8,  0,  0,  2,  2,  0,  0,  4,  4,  0,  0,  2,  2,  0,  0,  6,  6,  0,  0,  2,  2,  0,  0,  4,  4,  0,  0,  2,  2,  0,  0 >>,
     <<  0,  0,  0,  0,  0,  0,  0,  0,  2,  2,  2,  2,  0,  0,  0,  0,  4,  4,  4,  4,  0,  0,  0,  0,  2,  2,  2,  2,  0,  0,  0,  0,
         6,  6,  6,  6,  0,  0,  0,  0,  2,  2,  2,  2,  0,  0,  0,  0,  4,  4,  4,  4,  0,  0,  0,  0,  2,  2,  2,  2,  0,  0,  0,  0,
         8,  8,  8,  8,  0,  0,  0,  0,  2,  2,  2,  2,  0,  0,  0,  0,  4,  4,  4,  4,  0,  0,  0,  0,  2,  2,  2,  2,  0,  0,  0,  0,
         6,  6,  6,  6,  0,  0,  0,  0,  2,  2,  2,  2,  0,  0,  0,  0,  4,  4,  4,  4,  0,  0,  0,  0,  2,  2,  2,  2,  0,  0,  0,  0,
        10, 10, 10, 10,  0,  0,  0,  0,  2,  2,  2,  2,  0,  0,  0,  0,  4,  4,  4,  4,  0,  0,  0,  0,  2,  2,  2,  2,  0,  0,  0,  0,
         6,  6,  6,  6,  0,  0,  0,  0,  2,  2,  2,  2,  0,  0,  0,  0,  4,  4,  4,  4,  0,  0,  0,  0,  2,  2,  2,  2,  0,  0,  0,  0,
         8,  8,  8,  8,  0,  0,  0,  0,  2,  2,  2,  2,  0,  0,  0,  0,  4,  4,  4,  4,  0,  0,  0,  0,  2,  2,  2,  2,  0,  0,  0,  0,
         6,  6,  6,  6,  0,  0,  0,  0,  2,  2,  2,  2,  0,  0,  0,  0,  4,  4,  4,  4,  0,  0,  0,  0,  2,  2,  2,  2,  0,  0,  0,  0 >>,
     <<  0,  2,  0,  0,  0,  2,  0,  0,  0,  2,  0,  0,  0,  2,  0,  0,  2,  4,  2,  2,  2,  4,  2,  2,  0,  2,  0,  0,  0,  2,  0,  0,
         4,  6,  4,  4,  4,  6,  4,  4,  0,  2,  0,  0,  0,  2,  0,  0,  2,  4,  2,  2,  2,  4,  2,  2,  0,  2,  0,  0,  0,  2,  0,  0,
         6,  8,  6,  6,  6,  8,  6,  6,  0,  2,  0,  0,  0,  2,  0,  0,  2,  4,  2,  2,  2,  4,  2,  2,  0,  2,  0,  0,  0,  2,  0,  0,
         4,  6,  4,  4,  4,  6,  4,  4,  0,  2,  0,  0,  0,  2,  0,  0,  2,  4,  2,  2,  2,  4,  2,  2,  0,  2,  0,  0,  0,  2,  0,  0,
         8, 10,  8,  8,  8, 10,  8,  8,  0,  2,  0,  0,  0,  2,  0,  0,  2,  4,  2,  2,  2,  4,  2,  2,  0,  2,  0,  0,  0,  2,  0,  0,
         4,  6,  4,  4,  4,  6,  4,  4,  0,  2,  0,  0,  0,  2,  0,  0,  2,  4,  2,  2,  2,  4,  2,  2,  0,  2,  0,  0,  0,  2,  0,  0,
         6,  8,  6,  6,  6,  8,  6,  6,  0,  2,  0,  0,  0,  2,  0,  0,  2,  4,  2,  2,  2,  4,  2,  2,  0,  2,  0,  0,  0,  2,  0,  0,
         4,  6,  4,  4,  4,  6,  4,  4,  0,  2,  0,  0,  0,  2,  0,  0,  2,  4,  2,  2,  2,  4,  2,  2,  0,  2,  0,  0,  0,  2,  0,  0 >>,
     <<  0,  4,  2,  2,  0,  0,  0,  0,  0,  4,  2,  2,  0,  0,  0,  0,  0,  4,  2,  2,  0,  0,  0,  0,  0,  4,  2,  2,  0,  0,  0,  0,
         2,  6,  4,  4,  2,  2,  2,  2,  2,  6,  4,  4,  2,  2,  2,  2,  0,  4,  2,  2,  0,  0,  0,  0,  0,  4,  2,  2,  0,  0,  0,  0,
         4,  8,  6,  6,  4,  4,  4,  4,  4,  8,  6,  6,  4,  4,  4,  4,  0,  4,  2,  2,  0,  0,  0,  0,  0,  4,  2,  2,  0,  0,  0,  0,
         2,  6,  4,  4,  2,  2,  2,  2,  2,  6,  4,  4,  2,  2,  2,  2,  0,  4,  2,  2,  0,  0,  0,  0,  0,  4,  2,  2,  0,  0,  0,  0,
         6, 10,  8,  8,  6,  6,  6,  6,  6, 10,  8,  8,  6,  6,  6,  6,  0,  4,  2,  2,  0,  0,  0,  0,  0,  4,  2,  2,  0,  0,  0,  0,
         2,  6,  4,  4,  2,  2,  2,  2,  2,  6,  4,  4,  2,  2,  2,  2,  0,  4,  2,  2,  0,  0,  0,  0,  0,  4,  2,  2,  0,  0,  0,  0,
         4,  8,  6,  6,  4,  4,  4,  4,  4,  8,  6,  6,  4,  4,  4,  4,  0,  4,  2,  2,  0,  0,  0,  0,  0,  4,  2,  2,  0,  0,  0,  0,
         2,  6,  4,  4,  2,  2,  2,  2,  2,  6,  4,  4,  2,  2,  2,  2,  0,  4,  2,  2,  0,  0,  0,  0,  0,  4,  2,  2,  0,  0,  0,  0 >>,
     <<  0,  6,  4,  4,  2,  2,  2,  2,  0,  0,  0,  0,  0,  0,  0,  0,  0,  6,  4,  4,  2,  2,  2,  2,  0,  0,  0,  0,  0,  0,  0,  0,
         0,  6,  4,  4,  2,  2,  2,  2,  0,  0,  0,  0,  0,  0,  0,  0,  0,  6,  4,  4,  2,  2,  2,  2,  0,  0,  0,  0,  0,  0,  0,  0,
         2,  8,  6,  6,  4,  4,  4,  4,  2,  2,  2,  2,  2,  2,  2,  2,  2,  8,  6,  6,  4,  4,  4,  4,  2,  2,  2,  2,  2,  2,  2,  2,
         0,  6,  4,  4,  2,  2,  2,  2,  0,  0,  0,  0,  0,  0,  0,  0,  0,  6,  4,  4,  2,  2,  2,  2,  0,  0,  0,  0,  0,  0,  0,  0,
         4, 10,  8,  8,  6,  6,  6,  6,  4,  4,  4,  4,  4,  4,  4,  4,  4, 10,  8,  8,  6,  6,  6,  6,  4,  4,  4,  4,  4,  4,  4,  4,
         0,  6,  4,  4,  2,  2,  2,  2,  0,  0,  0,  0,  0,  0,  0,  0,  0,  6,  4,  4,  2,  2,  2,  2,  0,  0,  0,  0,  0,  0,  0,  0,
         2,  8,  6,  6,  4,  4,  4,  4,  2,  2,  2,  2,  2,  2,  2,  2,  2,  8,  6,  6,  4,  4,  4,  4,  2,  2,  2,  2,  2,  2,  2,  2,
         0,  6,  4,  4,  2,  2,  2,  2,  0,  0,  0,  0,  0,  0,  0,  0,  0,  6,  4,  4,  2,  2,  2,  2,  0,  0,  0,  0,  0,  0,  0,  0 >>,
     <<  0,  8,  6,  6,  4,  4,  4,  4,  2,  2,  2,  2,  2,  2,  2,  2,  0,  0,  0,  0,  0,  0,  0,  0,  0,  0,  0,  0,  0,  0,  0,  0,
         0,  8,  6,  6,  4,  4,  4,  4,  2,  2,  2,  2,  2,  2,  2,  2,  0,  0,  0,  0,  0,  0,  0,  0,  0,  0,  0,  0,  0,  0,  0,  0,
         0,  8,  6,  6,  4,  4,  4,  4,  2,  2,  2,  2,  2,  2,  2,  2,  0,  0,  0,  0,  0,  0,  0,  0,  0,  0,  0,  0,  0,  0,  0,  0,
         0,  8,  6,  6,  4,  4,  4,  4,  2,  2,  2,  2,  2,  2,  2,  2,  0,  0,  0,  0,  0,  0,  0,  0,  0,  0,  0,  0,  0,  0,  0,  0,
         2, 10,  8,  8,  6,  6,  6,  6,  4,  4,  4,  4,  4,  4,  4,  4,  2,  2,  2,  2,  2,  2,  2,  2,  2,  2,  2,  2,  2,  2,  2,  2,
         2, 10,  8,  8,  6,  6,  6,  6,  4,  4,  4,  4,  4,  4,  4,  4,  2,  2,  2,  2,  2,  2,  2,  2,  2,  2,  2,  2,  2,  2,  2,  2,
         0,  8,  6,  6,  4,  4,  4,  4,  2,  2,  2,  2,  2,  2,  2,  2,  0,  0,  0,  0,  0,  0,  0,  0,  0,  0,  0,  0,  0,  0,  0,  0,
         0,  8,  6,  6,  4,  4,  4,  4,  2,  2,  2,  2,  2,  2,  2,  2,  0,  0,  0,  0,  0,  0,  0,  0,  0,  0,  0,  0,  0,  0,  0,  0 >>,
     <<  0, 10,  8,  8,  6,  6,  6,  6,  4,  4,  4,  4,  4,  4,  4,  4,  2,  2,  2,  2,  2,  2,  2,  2,  2,  2,  2,  2,  2,  2,  2,  2,
         0,  0,  0,  0,  0,  0,  0,  0,  0,  0,  0,  0,  0,  0,  0,  0,  0,  0,  0,  0,  0,  0,  0,  0,  0,  0,  0,  0,  0,  0,  0,  0,
         0, 10,  8,  8,  6,  6,  6,  6,  4,  4,  4,  4,  4,  4,  4,  4,  2,  2,  2,  2,  2,  2,  2,  2,  2,  2,  2,  2,  2,  2,  2,  2,
         0,  0,  0,  0,  0,  0,  0,  0,  0,  0,  0,  0,  0,  0,  0,  0,  0,  0,  0,  0,  0,  0,  0,  0,  0,  0,  0,  0,  0,  0,  0,  0,
         0, 10,  8,  8,  6,  6,  6,  6,  4,  4,  4,  4,  4,  4,  4,  4,  2,  2,  2,  2,  2,  2,  2,  2,  2,  2,  2,  2,  2,  2,  2,  2,
         0,  0,  0,  0,  0,  0,  0,  0,  0,  0,  0,  0,  0,  0,  0,  0,  0,  0,  0,  0,  0,  0,  0,  0,  0,  0,  0,  0,  0,  0,  0,  0,
         0, 10,  8,  8,  6,  6,  6,  6,  4,  4,  4,  4,  4,  4,  4,  4,  2,  2,  2,  2,  2,  2,  2,  2,  2,  2,  2,  2,  2,  2,  2,  2,
         0,  0,  0,  0,  0,  0,  0,  0,  0,  0,  0,  0,  0,  0,  0,  0,  0,  0,  0,  0,  0,  0,  0,  0,  0,  0,  0,  0,  0,  0,  0,  0 >>,
     <<  0, 12, 10, 10,  8,  8,  8,  8,  6,  6,  6,  6,  6,  6,  6,  6,  4,  4,  4,  4,  4,  4,  4,  4,  4,  4,  4,  4,  4,  4,  4,  4,
         2,  2,  2,  2,  2,  2,  2,  2,  2,  2,  2,  2,  2,  2,  2,  2,  2,  2,  2,  2,  2,  2,  2,  2,  2,  2,  2,  2,  2,  2,  2,  2,
         0,  0,  0,  0,  0,  0,  0,  0,  0,  0,  0,  0,  0,  0,  0,  0,  0,  0,  0,  0,  0,  0,  0,  0,  0,  0,  0,  0,  0,  0,  0,  0,
         0,  0,  0,  0,  0,  0,  0,  0,  0,  0,  0,  0,  0,  0,  0,  0,  0,  0,  0,  0,  0,  0,  0,  0,  0,  0,  0,  0,  0,  0,  0,  0,
         0, 12, 10, 10,  8,  8,  8,  8,  6,  6,  6,  6,  6,  6,  6,  6,  4,  4,  4,  4,  4,  4,  4,  4,  4,  4,  4,  4,  4,  4,  4,  4,
         2,  2,  2,  2,  2,  2,  2,  2,  2,  2,  2,  2,  2,  2,  2,  2,  2,  2,  2,  2,  2,  2,  2,  2,  2,  2,  2,  2,  2,  2,  2,  2,
         0,  0,  0,  0,  0,  0,  0,  0,  0,  0,  0,  0,  0,  0,  0,  0,  0,  0,  0,  0,  0,  0,  0,  0,  0,  0,  0,  0,  0,  0,  0,  0,
         0,  0,  0,  0,  0,  0,  0,  0,  0,  0,  0,  0,  0,  0,  0,  0,  0,  0,  0,  0,  0,  0,  0,  0,  0,  0,  0,  0,  0,  0,  0,  0 >> >>

(***************************************************************************)
(* Table access, C indices (from 0)                                        *)
(***************************************************************************)
(* the table as the compiler stores it: every constant complemented *)
maskl_tab == [p \in 0 .. 63 |-> [q \in 0 .. 3 |-> Not(maskl_neg[p + 1][q + 1])]]

(* maskl read without the complement the source writes on every constant *)
maskl_raw(p, q) == maskl_neg[p + 1][q + 1]

(* maskl[p][j].ull[l], as lane q = 2 j + l in 0..3 *)
maskl(p, q) == maskl_tab[p][q]

(* maskr whose first ray is every square below p, the rows below included *)
maskr_below(p, i) == IF i = 0 THEN 0 .. (p - 1) ELSE maskr_tab[p + 1][i + 1]

maskr(p, i) == maskr_tab[p + 1][i + 1]

(* masko that keeps the last cell of the ray: no guardian bit is left *)
masko_full(p, i) == maskr(p, i)

masko(p, i) == masko_tab[p + 1][i + 1]

(* mask_d_v whose fourth lane repeats the column lane *)
mask_d_v_lane3(p, l) == mask_d_v_tab[p + 1][IF l = 3 THEN 3 ELSE l + 1]

(* mask_d_v[p].ull[l], l in 0..3 *)
mask_d_v(p, l) == IF l = 3 THEN ZERO ELSE mask_d_v_tab[p + 1][l + 1]

(* masks that follow the shifts by 7 and by 9 across the board edge: every square
   at a multiple of 7 (lane 0) or 9 (lane 1) from p *)
mask_d_wrapped(p, l) ==
  IF l = 0 THEN { s \in 0 .. 63 : (s - p) % 7 = 0 } ELSE { s \in 0 .. 63 : (s - p) % 9 = 0 }

(* mask_d[p].ull[l], l in 0..1 *)
mask_d(p, l) == mask_d_tab[p + 1][l + 1]

(* COUNT_FLIP holding the number of flipped discs, not twice that number *)
COUNT_FLIP_single(k, pattern) == COUNT_FLIP_tab[k + 1][pattern + 1] \div 2

(* COUNT_FLIP with the cells of the line numbered from the other end *)
COUNT_FLIP_rev(k, pattern) == COUNT_FLIP_tab[8 - k][pattern + 1]

(* COUNT_FLIP read one row too far *)
COUNT_FLIP_nextrow(k, pattern) == COUNT_FLIP_tab[((k + 1) % 8) + 1][pattern + 1]

COUNT_FLIP(k, pattern) == COUNT_FLIP_tab[k + 1][pattern + 1]

(***************************************************************************)
(* flip_sse_bitscan.c: flip                                                *)
(***************************************************************************)
SWAP64 == 78

SWAP32 == 177

(* the two compile-time strategies of count_opp_reverse (bit.h:425-430) *)
ScanStrategies == {"lzcnt", "clz"}

(* the two compile-time strategies of last_flip (__AVX2__ or not) *)
LineStrategies == {"avx2", "sse"}

(* lzcnt64 / _lzcnt_u64: the number of leading 0 bits, 64 for 0 *)
lzcnt64(n) == IF n = ZERO THEN 64 ELSE 63 - MaxBit(n)

(* __builtin_clzll: the number of leading 0 bits; the result for 0 is undefined,
   any count may come back *)
builtin_clzll(n) == IF n = ZERO THEN 0 .. 64 ELSE {63 - MaxBit(n)}

(* count_opp_reverse whose leading-zero count is not bounded by the ray mask *)
count_opp_reverse_unmasked(strategy, o, mo, mr) ==
  IF strategy = "lzcnt" THEN {lzcnt64(Not(o))}
  ELSE builtin_clzll(Xor(And(o, mo), mr))

(* count_opp_reverse(O, masko, maskr): the counts the build can produce *)
count_opp_reverse(strategy, o, mo, mr) ==
  IF strategy = "lzcnt" THEN {lzcnt64(And(Not(o), mr))}
  ELSE builtin_clzll(Xor(And(o, mo), mr))

(* 0x8000000000000000ULL >> n: a shift by 64 is undefined; the shifter either
   takes the count modulo 64 or the folded shift yields 0 *)
TopBitShr(n) == IF n <= 63 THEN {{63 - n}} ELSE {ZERO, {63}}

(* the low-side contribution with -outflank not doubled: the outflanking disc is
   not shifted out *)
flipped_r_nodouble(strategy, p, pl, op, i) ==
  LET x == UNION { TopBitShr(n) :
                     n \in count_opp_reverse(strategy, op, masko(p, i), maskr(p, i)) }
      outflankr == { And(v, pl) : v \in x }
  IN  { And(Neg(o), maskr(p, i)) : o \in outflankr }

(* the low-side contribution with the scanned bit not tested against P *)
flipped_r_noplayer(strategy, p, pl, op, i) ==
  LET x == UNION { TopBitShr(n) :
                     n \in count_opp_reverse(strategy, op, masko(p, i), maskr(p, i)) }
  IN  { And(Mul2(Neg(o)), maskr(p, i)) : o \in x }

(* the low-side contribution without the final & maskr *)
flipped_r_unmasked(strategy, p, pl, op, i) ==
  LET x == UNION { TopBitShr(n) :
                     n \in count_opp_reverse(strategy, op, masko(p, i), maskr(p, i)) }
      outflankr == { And(v, pl) : v \in x }
  IN  { Mul2(Neg(o)) : o \in outflankr }

(* lines 459-460 (and 461-466 for i = 1, 2, 3): the values the contribution of the
   low-side ray i can take *)
flipped_r(strategy, p, pl, op, i) ==
  LET x == UNION { TopBitShr(n) :
                     n \in count_opp_reverse(strategy, op, masko(p, i), maskr(p, i)) }
      outflankr == { And(v, pl) : v \in x }
  IN  { And(Mul2(Neg(o)), maskr(p, i)) : o \in outflankr }

(* _mm_shuffle_epi32(v, imm) on a pair of words: 32-bit element k of the result is
   element (imm >> 2k) & 3 of v *)
Dword(v, e) == Shr(And(v[(e \div 2) + 1], IF e % 2 = 0 THEN 0 .. 31 ELSE 32 .. 63),
                   32 * (e % 2))

mm_shuffle_epi32(v, imm) ==
  LET sel(k) == (imm \div Pow2(2 * k)) % 4
      lane(l) == Or(Dword(v, sel(2 * l)), Shl(Dword(v, sel(2 * l + 1)), 32))
  IN  << lane(0), lane(1) >>

(* _mm_cmpeq_epi32: all ones in every 32-bit element where a and b are equal *)
mm_cmpeq_epi32(a, b) ==
  LET lane(l) == (IF Dword(a, 2 * l) = Dword(b, 2 * l) THEN 0 .. 31 ELSE {})
                   \cup (IF Dword(a, 2 * l + 1) = Dword(b, 2 * l + 1) THEN 32 .. 63 ELSE {})
  IN  << lane(0), lane(1) >>

(* lane-wise operations on a __v2di *)
V2And(a, b) == << And(a[1], b[1]), And(a[2], b[2]) >>

V2Or(a, b) == << Or(a[1], b[1]), Or(a[2], b[2]) >>

V2Not(a) == << Not(a[1]), Not(a[2]) >>

V2Sub(a, b) == << Sub(a[1], b[1]), Sub(a[2], b[2]) >>

(* _mm_set1_epi64x *)
mm_set1_epi64x(w) == << w, w >>

(* line 457 *)
minusone == << ALLBITS, ALLBITS >>

(* maskl read one row too far *)
maskl_v2_nextrow(p, j) == << maskl((p + 1) % 64, 2 * j), maskl((p + 1) % 64, 2 * j + 1) >>

(* maskl[p][j].v2 *)
maskl_v2(p, j) == << maskl(p, 2 * j), maskl(p, 2 * j + 1) >>

(* lines 441-443 *)
flipmask(outflank) == mm_cmpeq_epi32(mm_shuffle_epi32(outflank, SWAP32), outflank)

(* the high-side step without the final ~maskl & *)
outflank_l_unmasked(p, pl, op, j) ==
  LET m  == maskl_v2(p, j)
      nm == V2Not(m)
      PP == mm_set1_epi64x(pl)
      OO == mm_set1_epi64x(op)
      o1 == V2And(V2And(nm, V2Sub(V2Or(OO, m), minusone)), PP)
  IN  V2Sub(o1, V2Sub(flipmask(o1), minusone))

(* lines 470 and 472 (471 and 473 for j = 1) *)
outflank_l(p, pl, op, j) ==
  LET m  == maskl_v2(p, j)
      nm == V2Not(m)
      PP == mm_set1_epi64x(pl)
      OO == mm_set1_epi64x(op)
      o1 == V2And(V2And(nm, V2Sub(V2Or(OO, m), minusone)), PP)
  IN  V2And(nm, V2Sub(o1, V2Sub(flipmask(o1), minusone)))

(* lines 468-475 and the [0] of line 477 *)
flipped_l(p, pl, op) ==
  LET o17 == V2Or(outflank_l(p, pl, op, 0), outflank_l(p, pl, op, 1))
  IN  V2Or(o17, mm_shuffle_epi32(o17, SWAP64))[1]

(* lines 459-466: the values flipped can hold after the four low-side rays *)
flip_low(strategy, p, pl, op) ==
  { Or(Or(Or(r1, r7), r8), r9) :
      r1 \in flipped_r(strategy, p, pl, op, 0),
      r7 \in flipped_r(strategy, p, pl, op, 1),
      r8 \in flipped_r(strategy, p, pl, op, 2),
      r9 \in flipped_r(strategy, p, pl, op, 3) }

(* flip that keeps its result in static storage: the stores a call would then make *)
flip_stores_scratch(m) == [m EXCEPT !["minusone"] = Append(@, "outflank17")]

(* the static storage after a step of flip: lines 453-477 assign to the locals
   outflankr1 .. outflankr9, flipped, PP, OO, outflank17 and outflank89 only *)
flip_stores(m) == m

(* flip that leaves out the fourth low-side ray (lines 465-466) *)
flip_no_r9(strategy, p, pl, op) ==
  { Or(Or(Or(r1, r7), r8), flipped_l(p, pl, op)) :
      r1 \in flipped_r(strategy, p, pl, op, 0),
      r7 \in flipped_r(strategy, p, pl, op, 1),
      r8 \in flipped_r(strategy, p, pl, op, 2) }

(* lines 453-478: the values flip(pos, P, O) can return *)
flip(strategy, p, pl, op) ==
  { Or(Or(Or(Or(r1, r7), r8), r9), flipped_l(p, pl, op)) :
      r1 \in flipped_r(strategy, p, pl, op, 0),
      r7 \in flipped_r(strategy, p, pl, op, 1),
      r8 \in flipped_r(strategy, p, pl, op, 2),
      r9 \in flipped_r(strategy, p, pl, op, 3) }

(***************************************************************************)
(* count_last_flip_sse.c: last_flip                                        *)
(***************************************************************************)
(* byte j (0..7) of a word *)
ByteBits(j) == (8 * j) .. (8 * j + 7)

(* lane-wise operations on a vector of 64-bit lanes (two for __m128i, four for
   __m256i) *)
VAnd(a, b) == [l \in DOMAIN a |-> And(a[l], b[l])]

(* the comparison done on 16-bit elements (_mm_cmpeq_epi16): 0xffff in every
   element where a and b are equal *)
mm_cmpeq_epi16(a, b) ==
  [l \in DOMAIN a |->
     UNION { (16 * j) .. (16 * j + 15) :
               j \in { k \in 0 .. 3 :
                         \A i \in (16 * k) .. (16 * k + 15) : (i \in a[l]) <=> (i \in b[l]) } }]

(* _mm_cmpeq_epi8 / _mm256_cmpeq_epi8: 0xff in every byte where a and b are equal *)
mm_cmpeq_epi8(a, b) ==
  [l \in DOMAIN a |->
     UNION { ByteBits(j) : j \in { k \in 0 .. 7 :
                                     \A i \in ByteBits(k) : (i \in a[l]) <=> (i \in b[l]) } }]

(* _mm_movemask_epi8 / _mm256_movemask_epi8: bit 8 (l - 1) + j of the int result is
   the top bit of byte j of lane l *)
mm_movemask_epi8(a) ==
  UNION { { 8 * (l - 1) + j : j \in { k \in 0 .. 7 : 8 * k + 7 \in a[l] } } :
            l \in DOMAIN a }

(* ~ on a 32-bit int *)
Not32(a) == (0 .. 31) \ a

(* (unsigned char) w, as a number *)
uchar(a) == ToNum(And(a, 0 .. 7))

(* _mm_cvtsi64_si128 *)
mm_cvtsi64_si128(w) == << w, ZERO >>

(* _mm_cvtsi32_si128 of a non-negative int *)
mm_cvtsi32_si128(n) == << ToBits(n), ZERO >>

(* _mm_sll_epi64(a, count): both lanes shifted left by the low 64 bits of count,
   0 when that count exceeds 63 *)
mm_sll_epi64(a, count) ==
  LET n == ToNum(count[1])
  IN  IF n > 63 THEN << ZERO, ZERO >> ELSE << Shl(a[1], n), Shl(a[2], n) >>

(* _mm_unpacklo_epi64 *)
mm_unpacklo_epi64(a, b) == << a[1], b[1] >>

(* _mm256_broadcastq_epi64 *)
mm256_broadcastq_epi64(a) == << a[1], a[1], a[1], a[1] >>

(* mask_d_v[p].v4 and mask_d[p].v2 *)
mask_d_v_v4(p) == << mask_d_v(p, 0), mask_d_v(p, 1), mask_d_v(p, 2), mask_d_v(p, 3) >>

mask_d_v2(p) == << mask_d(p, 0), mask_d(p, 1) >>

(* lines 281-282 and 286-287: t *)
last_flip_t(strategy, p, pl) ==
  LET P0 == mm_cvtsi64_si128(pl)
  IN  IF strategy = "avx2"
      THEN Not32(mm_movemask_epi8(mm_cmpeq_epi8(
             VAnd(mm256_broadcastq_epi64(P0), mask_d_v_v4(p)),
             << ZERO, ZERO, ZERO, ZERO >>)))
      ELSE Not32(mm_movemask_epi8(mm_cmpeq_epi8(
             VAnd(mm_unpacklo_epi64(P0, P0), mask_d_v2(p)), << ZERO, ZERO >>)))

(* the column index with the SSE shift count x, not x ^ 7 *)
last_flip_col_noxor(strategy, p, pl) ==
  LET x == p % 8
  IN  IF strategy = "avx2"
      THEN ToNum(Shr(last_flip_t(strategy, p, pl), 16))
      ELSE ToNum(mm_movemask_epi8(mm_sll_epi64(mm_cvtsi64_si128(pl), mm_cvtsi32_si128(x))))

(* lines 283 and 285: the second index of the column lookup *)
last_flip_col(strategy, p, pl) ==
  LET x == p % 8
  IN  IF strategy = "avx2"
      THEN ToNum(Shr(last_flip_t(strategy, p, pl), 16))
      ELSE ToNum(mm_movemask_epi8(mm_sll_epi64(mm_cvtsi64_si128(pl),
                                   mm_cvtsi32_si128(ToNum(Xor(ToBits(x), ToBits(7)))))))

(* unsigned char n_flipped += v *)
uchar_add(a, b) == (a + b) % 256

(* last_flip that indexes the two diagonal lookups by the column x, not the row y *)
last_flip_xrole(strategy, p, pl) ==
  LET x == p % 8
      y == p \div 8
      t == last_flip_t(strategy, p, pl)
      n0 == COUNT_FLIP(y, last_flip_col(strategy, p, pl))
      n1 == uchar_add(n0, COUNT_FLIP(x, uchar(Shr(t, 8))))
      n2 == uchar_add(n1, COUNT_FLIP(x, uchar(t)))
  IN  uchar_add(n2, COUNT_FLIP(x, uchar(Shr(pl, y * 8))))

(* lines 288-290: the three lookups added to n_flipped once t is known *)
last_flip_sum(p, pl, n0, t) ==
  LET x == p % 8
      y == p \div 8
      n1 == uchar_add(n0, COUNT_FLIP(y, uchar(Shr(t, 8))))
      n2 == uchar_add(n1, COUNT_FLIP(y, uchar(t)))
  IN  uchar_add(n2, COUNT_FLIP(x, uchar(Shr(pl, y * 8))))

(* the static storage after a step of last_flip: lines 272-293 assign to the
   locals n_flipped, t, x, y and P0 only *)
last_flip_stores(m) == m

(* lines 283 or 285 and 288-290: the index pairs of the four COUNT_FLIP accesses,
   in the order of the source *)
last_flip_index(strategy, p, pl) ==
  LET x == p % 8
      y == p \div 8
      t == last_flip_t(strategy, p, pl)
  IN  << << y, last_flip_col(strategy, p, pl) >>,
         << y, uchar(Shr(t, 8)) >>,
         << y, uchar(t) >>,
         << x, uchar(Shr(pl, y * 8)) >> >>

(* an access COUNT_FLIP[k][pattern] is within the array COUNT_FLIP[8][256] *)
InBounds(e) == e[1] \in 0 .. 7 /\ e[2] \in 0 .. 255

(* the values n_flipped can hold after the four accesses e are read and added: an
   access outside the array reads whatever lies there *)
last_flip_read(e) ==
  IF \A i \in 1 .. 4 : InBounds(e[i])
  THEN {uchar_add(uchar_add(uchar_add(COUNT_FLIP(e[1][1], e[1][2]),
                                      COUNT_FLIP(e[2][1], e[2][2])),
                            COUNT_FLIP(e[3][1], e[3][2])),
                  COUNT_FLIP(e[4][1], e[4][2]))}
  ELSE 0 .. 255

(* last_flip that indexes the row lookup by the row y, not the column x *)
last_flip_rowrole(strategy, p, pl) ==
  LET x == p % 8
      y == p \div 8
      t == last_flip_t(strategy, p, pl)
      n0 == COUNT_FLIP(y, last_flip_col(strategy, p, pl))
      n1 == uchar_add(n0, COUNT_FLIP(y, uchar(Shr(t, 8))))
      n2 == uchar_add(n1, COUNT_FLIP(y, uchar(t)))
  IN  uchar_add(n2, COUNT_FLIP(y, uchar(Shr(pl, y * 8))))

(* lines 272-294 *)
last_flip(strategy, p, pl) ==
  LET x == p % 8
      y == p \div 8
      t == last_flip_t(strategy, p, pl)
      n0 == COUNT_FLIP(y, last_flip_col(strategy, p, pl))
      n1 == uchar_add(n0, COUNT_FLIP(y, uchar(Shr(t, 8))))
      n2 == uchar_add(n1, COUNT_FLIP(y, uchar(t)))
  IN  uchar_add(n2, COUNT_FLIP(x, uchar(Shr(pl, y * 8))))

(***************************************************************************)
(* The static storage of the two translation units: the constant tables    *)
(* and flip's static const minusone.  Each object is held as the list of   *)
(* the stores made to it since the program was loaded; its contents are    *)
(* the compiled constants for as long as that list is empty.               *)
(***************************************************************************)
StaticNames == {"maskl", "masko", "maskr", "COUNT_FLIP", "mask_d", "mask_d_v", "minusone"}

StaticStorage == [n \in StaticNames |-> << >>]

(* the objects of names hold the compiled constants in storage m *)
Intact(m, names) == \A n \in names : m[n] = << >>

(***************************************************************************)
(* Board geometry of the callers' inputs: square s is row s / 8, column    *)
(* s % 8; the 8 directions are numbered as the tables number them, the     *)
(* four low-side rays (-1, -7, -8, -9) first, then +1, +7, +8, +9.         *)
(***************************************************************************)
Dirs == 0 .. 7

DRow == << 0, -1, -1, -1, 0, 1, 1, 1 >>

DCol == << -1, 1, 0, -1, 1, -1, 0, 1 >>

Row(s) == s \div 8

Col(s) == s % 8

OnBoard(r, c) == r \in 0 .. 7 /\ c \in 0 .. 7

(* the number of cells from s to the board edge in direction d, s excluded *)
RayLenTab ==
  [s \in Squares |-> [d \in Dirs |->
     Cardinality({ k \in 1 .. 7 :
                     OnBoard(Row(s) + k * DRow[d + 1], Col(s) + k * DCol[d + 1]) })]]

RayLen(s, d) == RayLenTab[s][d]

(* the k-th cell from s in direction d, 1 <= k <= RayLen(s, d) *)
RayCell(s, d, k) == 8 * (Row(s) + k * DRow[d + 1]) + Col(s) + k * DCol[d + 1]

(* the geometric ray: every cell from s to the edge in direction d *)
Ray(s, d) == { RayCell(s, d, k) : k \in 1 .. RayLen(s, d) }

Abs(n) == IF n < 0 THEN -n ELSE n

(* the distance in king moves between two squares *)
Dist(s, t) ==
  LET dr == Abs(Row(s) - Row(t))
      dc == Abs(Col(s) - Col(t))
  IN  IF dr > dc THEN dr ELSE dc

(***************************************************************************)
(* The calls.  A caller holds a square and two disc sets and calls flip or *)
(* last_flip once; the build fixes the strategy each function was compiled *)
(* with.  The inputs are drawn from a bounded family of boards: one ray    *)
(* from the square carries a run of n opponent discs ended by a player     *)
(* disc, an empty cell or the edge; every other square is empty, or holds  *)
(* an opponent disc within king distance r of the square and a player disc *)
(* beyond it; the played square itself is empty or (a caller breaking the  *)
(* precondition) holds a player disc.                                      *)
(***************************************************************************)
MaxRun == 7

MaxRing == 2

Backgrounds == {-1} \cup (0 .. MaxRing)

Min2(a, b) == IF a < b THEN a ELSE b

(* the cells the painted ray fixes: the run and the cell that ends it *)
Painted(s, d, n) == { RayCell(s, d, k) : k \in 1 .. Min2(n + 1, RayLen(s, d)) }

(* the squares within king distance r of s, for every background radius *)
RingTab ==
  [s \in Squares |-> [r \in 0 .. MaxRing |-> { t \in Squares : Dist(s, t) <= r }]]

Ring(s, r) == RingTab[s][r]

BoardO(s, d, n, bg) ==
  { RayCell(s, d, k) : k \in 1 .. n }
    \cup (IF bg >= 0 THEN Ring(s, bg) \ ({s} \cup Painted(s, d, n)) ELSE {})

BoardP(s, d, n, term, bg, own) ==
  (IF term /\ n < RayLen(s, d) THEN {RayCell(s, d, n + 1)} ELSE {})
    \cup (IF bg >= 0 THEN (Squares \ Ring(s, bg)) \ ({s} \cup Painted(s, d, n)) ELSE {})
    \cup (IF own THEN {s} ELSE {})

Init ==
  /\ pc = "call"
  /\ build = "none"
  /\ pos \in Squares
  /\ \E d \in Dirs, bg \in Backgrounds, term \in BOOLEAN, own \in BOOLEAN :
       \E n \in 0 .. Min2(MaxRun, RayLen(pos, d)) :
         /\ (n = RayLen(pos, d)) => ~term
         /\ O = BoardO(pos, d, n, bg)
         /\ P = BoardP(pos, d, n, term, bg, own)
  /\ flipped = ZERO
  /\ n_flipped = 0
  /\ tab = "none"
  /\ idx = << 0, 0 >>
  /\ val = 0
  /\ mem = StaticStorage
  /\ thr = << >>
  /\ moves = 0

(* callers that pass no player disc at all: O is a board of the family or the
   complement of one, with or without a disc on the played square *)
InitAnyO ==
  /\ pc = "call"
  /\ build = "none"
  /\ pos \in Squares
  /\ P = ZERO
  /\ \E d \in Dirs, bg \in Backgrounds, inv \in BOOLEAN, own \in BOOLEAN :
       \E n \in 0 .. Min2(MaxRun, RayLen(pos, d)) :
         LET b == BoardO(pos, d, n, bg)
         IN  O = ((IF inv THEN Not(b) ELSE b) \ {pos}) \cup (IF own THEN {pos} ELSE {})
  /\ flipped = ZERO
  /\ n_flipped = 0
  /\ tab = "none"
  /\ idx = << 0, 0 >>
  /\ val = 0
  /\ mem = StaticStorage
  /\ thr = << >>
  /\ moves = 0

(* flip(pos, P, O), compiled with either strategy of count_opp_reverse *)
Flip ==
  /\ pc = "call"
  /\ \E s \in ScanStrategies :
       /\ build' = s
       /\ flipped' \in flip(s, pos, P, O)
  /\ pc' = "flip"
  /\ UNCHANGED << pos, P, O, n_flipped, tab, idx, val, mem, thr, moves >>

(* last_flip(pos, P), compiled with or without __AVX2__ *)
LastFlip ==
  /\ pc = "call"
  /\ \E s \in LineStrategies :
       /\ build' = s
       /\ n_flipped' = last_flip(s, pos, P)
  /\ pc' = "last_flip"
  /\ UNCHANGED << pos, P, O, flipped, tab, idx, val, mem, thr, moves >>

(* last_flip in two steps: the indices of its four table accesses (lines 276-290),
   then the reads and the sum *)
LastFlipAccess ==
  /\ pc = "call"
  /\ \E s \in LineStrategies :
       /\ build' = s
       /\ idx' = last_flip_index(s, pos, P)
  /\ pc' = "access"
  /\ UNCHANGED << pos, P, O, flipped, n_flipped, tab, val, mem, thr, moves >>

LastFlipRead ==
  /\ pc = "access"
  /\ n_flipped' \in last_flip_read(idx)
  /\ pc' = "last_flip"
  /\ UNCHANGED << pos, P, O, build, flipped, tab, idx, val, mem, thr, moves >>

Next == Flip \/ LastFlip

Spec == Init /\ [][Next]_vars

(* the callers of one function only *)
SpecFlip == Init /\ [][Flip]_vars

SpecLastFlip == Init /\ [][LastFlip]_vars

(* callers that break the preconditions: a board of the family made to overlap, by
   giving the player every opponent disc and both sides the played square
   (mode 1), by filling O (mode 2) or by filling P (mode 3) *)
InitOverlap ==
  /\ pc = "call"
  /\ build = "none"
  /\ pos \in Squares
  /\ \E d \in Dirs, bg \in Backgrounds, mode \in 1 .. 3 :
       \E n \in 0 .. Min2(MaxRun, RayLen(pos, d)) :
         LET p0 == BoardP(pos, d, n, n < RayLen(pos, d), bg, FALSE)
             o0 == BoardO(pos, d, n, bg)
         IN  /\ P = (CASE mode = 1 -> Or(Or(p0, o0), x_to_bit(pos))
                        [] mode = 2 -> p0
                        [] mode = 3 -> ALLBITS)
             /\ O = (CASE mode = 1 -> Or(o0, x_to_bit(pos))
                        [] mode = 2 -> ALLBITS
                        [] mode = 3 -> o0)
  /\ flipped = ZERO
  /\ n_flipped = 0
  /\ tab = "none"
  /\ idx = << 0, 0 >>
  /\ val = 0
  /\ mem = StaticStorage
  /\ thr = << >>
  /\ moves = 0

(* the callers of flip, those that pass no player disc included *)
SpecFlipAnyO == (Init \/ InitAnyO) /\ [][Flip]_vars

(* the callers of flip, those that break the preconditions included *)
SpecFlipAnyInput == (Init \/ InitAnyO \/ InitOverlap) /\ [][Flip]_vars

(* the callers of last_flip, its table accesses made visible *)
SpecLastFlipAccess == Init /\ [][LastFlipAccess \/ LastFlipRead]_vars

(***************************************************************************)
(* Properties of flip                                                      *)
(***************************************************************************)
(* the preconditions of flip: the played square is empty, no square holds two discs *)
Valid == pos \notin P /\ pos \notin O /\ And(P, O) = ZERO

(* the length of the run of op discs that starts at the cell next to s in direction d *)
RunLen(s, d, op) ==
  Cardinality({ n \in 1 .. RayLen(s, d) : \A k \in 1 .. n : RayCell(s, d, k) \in op })

(* direction d outflanks: the run is non-empty and the next cell is on the board and
   holds a pl disc *)
Outflanks(s, d, pl, op) ==
  LET n == RunLen(s, d, op)
  IN  n >= 1 /\ n < RayLen(s, d) /\ RayCell(s, d, n + 1) \in pl

(* the reference ray walk *)
RefFlip(s, pl, op) ==
  UNION { { RayCell(s, d, k) : k \in 1 .. RunLen(s, d, op) } :
            d \in { e \in Dirs : Outflanks(s, e, pl, op) } }

(* C1: on valid inputs flip returns the union, over the 8 directions, of the
   maximal runs of opponent discs next to the square that are followed on the
   board by a player disc (0 when no direction outflanks). *)
C1_FlipIsRayWalk == (pc = "flip" /\ Valid) => flipped = RefFlip(pos, P, O)

(* a call where a low-side and a high-side direction outflank and a third run is
   not outflanked *)
C1_Witness ==
  /\ pc = "flip" /\ Valid
  /\ \E d \in 0 .. 3 : Outflanks(pos, d, P, O)
  /\ \E d \in 4 .. 7 : Outflanks(pos, d, P, O)
  /\ \E d \in Dirs : RunLen(pos, d, O) >= 1 /\ ~Outflanks(pos, d, P, O)
  /\ flipped # ZERO

(* C3: on valid inputs every bit flip returns is an opponent disc. *)
C3_FlipSubsetOfO == (pc = "flip" /\ Valid) => And(flipped, Not(O)) = ZERO

(* a call that flips some opponent discs and leaves others *)
C3_Witness == pc = "flip" /\ Valid /\ flipped # ZERO /\ O \ flipped # ZERO

(* C6: on valid inputs the two strategies of count_opp_reverse give the same
   contribution on each of the four low-side rays, whatever the undefined scans
   yield, and the same flip result: the value the build returned is the only value
   the other strategy can return. *)
C6_ScanStrategiesAgree ==
  (pc = "flip" /\ Valid) =>
    /\ \A i \in 0 .. 3 :
         flipped_r("lzcnt", pos, P, O, i) = flipped_r("clz", pos, P, O, i)
    /\ \A s \in ScanStrategies \ {build} : flip(s, pos, P, O) = {flipped}

(* a call where a low-side ray outflanks and another low-side ray is full of
   opponent discs up to the edge *)
C6_Witness ==
  /\ pc = "flip" /\ Valid
  /\ \E d \in 0 .. 3 : Outflanks(pos, d, P, O)
  /\ \E d \in 0 .. 3 : RayLen(pos, d) >= 1 /\ RunLen(pos, d, O) = RayLen(pos, d)

(* the 8 symmetries of the board: t in 0..7 encodes transpose (t >= 4), then mirror of
   the rows (t odd), then mirror of the columns (second bit of t); t = 3 is the
   reversal of the 64 bits *)
Syms == 0 .. 7

Sym(t, s) ==
  LET r0 == IF t >= 4 THEN Col(s) ELSE Row(s)
      c0 == IF t >= 4 THEN Row(s) ELSE Col(s)
      r1 == IF t % 2 = 1 THEN 7 - r0 ELSE r0
      c1 == IF (t \div 2) % 2 = 1 THEN 7 - c0 ELSE c0
  IN  8 * r1 + c1

SymW(t, w) == { Sym(t, s) : s \in w }

(* C8: on valid inputs flip commutes with each of the 8 symmetries of the board. *)
C8_FlipSymmetric ==
  (pc = "flip" /\ Valid) =>
    \A t \in Syms :
      flip(build, Sym(t, pos), SymW(t, P), SymW(t, O)) = {SymW(t, flipped)}

(* a call that flips discs in a position no symmetry but the identity fixes *)
C8_Witness ==
  /\ pc = "flip" /\ Valid /\ flipped # ZERO
  /\ \A t \in Syms \ {0} : SymW(t, flipped) # flipped

(* C10: with no opponent disc on the board flip returns 0, for every player set. *)
C10_NoOpponentNoFlip == (pc = "flip" /\ O = ZERO) => flipped = ZERO

(* a call with no opponent disc and player discs next to the square on a low-side
   and on a high-side ray *)
C10_Witness ==
  /\ pc = "flip" /\ O = ZERO
  /\ \E d \in 0 .. 3 : RayLen(pos, d) >= 1 /\ RayCell(pos, d, 1) \in P
  /\ \E d \in 4 .. 7 : RayLen(pos, d) >= 1 /\ RayCell(pos, d, 1) \in P

(***************************************************************************)
(* Properties of last_flip                                                 *)
(***************************************************************************)
(* the opponent set of a last move: ~P & ~bit(square) *)
ImpliedO(s, pl) == And(Not(pl), Not(x_to_bit(s)))

(* C2: when the played square is not in P, last_flip returns twice the number of
   discs flip returns for the opponent set ~P & ~bit(square), with either scan
   strategy and whatever the undefined scans yield. *)
C2_LastFlipCountsFlip ==
  (pc = "last_flip" /\ pos \notin P) =>
    \A s \in ScanStrategies :
      \A f \in flip(s, pos, P, ImpliedO(pos, P)) : n_flipped = 2 * bit_count(f)

(* a last move that flips along a diagonal and along a row or a column *)
C2_Witness ==
  /\ pc = "last_flip" /\ pos \notin P
  /\ \E d \in {1, 3, 5, 7} : Outflanks(pos, d, P, ImpliedO(pos, P))
  /\ \E d \in {0, 2, 4, 6} : Outflanks(pos, d, P, ImpliedO(pos, P))
  /\ n_flipped >= 4

(* C7: the AVX2 and the SSE strategy of last_flip extract the same column pattern
   and the same two diagonal patterns and return the same count, for every P. *)
C7_LineStrategiesAgree ==
  pc = "last_flip" =>
    /\ last_flip_col("avx2", pos, P) = last_flip_col("sse", pos, P)
    /\ And(last_flip_t("avx2", pos, P), 0 .. 15) = And(last_flip_t("sse", pos, P), 0 .. 15)
    /\ \A s \in LineStrategies : last_flip(s, pos, P) = n_flipped

(* a call off the first column with a mixed column and non-empty diagonals *)
C7_Witness ==
  /\ pc = "last_flip" /\ Col(pos) \notin {0, 7}
  /\ last_flip_col(build, pos, P) \notin {0, 255}
  /\ uchar(last_flip_t(build, pos, P)) # 0
  /\ uchar(Shr(last_flip_t(build, pos, P), 8)) # 0
  /\ n_flipped > 0

(* C9: last_flip returns a non-negative even number for every square and every P,
   valid last move or not. *)
C9_LastFlipEven == pc = "last_flip" => (n_flipped >= 0 /\ n_flipped % 2 = 0)

(* a call on a position that is no valid last move (the played square holds a disc)
   and that still counts flips *)
C9_Witness == pc = "last_flip" /\ pos \in P /\ n_flipped > 0

(***************************************************************************)
(* Reading the tables.  A reader picks a table and an index pair and reads *)
(* the entry; the tables are constants, so every entry can be read.        *)
(***************************************************************************)
TableNames == {"COUNT_FLIP", "maskl", "masko", "maskr", "mask_d", "mask_d_v"}

TableIndex(t) ==
  CASE t = "COUNT_FLIP" -> (0 .. 7) \X (0 .. 255)
    [] t = "mask_d" -> Squares \X (0 .. 1)
    [] OTHER -> Squares \X (0 .. 3)

InitTables ==
  /\ pc = "index"
  /\ tab \in TableNames
  /\ idx \in TableIndex(tab)
  /\ val = 0
  /\ mem = StaticStorage
  /\ thr = << >>
  /\ moves = 0
  /\ build = "none"
  /\ pos = 0
  /\ P = ZERO
  /\ O = ZERO
  /\ flipped = ZERO
  /\ n_flipped = 0

ReadEntry(t, e) ==
  /\ pc = "index"
  /\ tab = t
  /\ val' = e
  /\ pc' = "read"
  /\ UNCHANGED << pos, P, O, build, flipped, n_flipped, tab, idx, mem, thr, moves >>

ReadTable ==
  \/ ReadEntry("COUNT_FLIP", COUNT_FLIP(idx[1], idx[2]))
  \/ ReadEntry("maskl", maskl(idx[1], idx[2]))
  \/ ReadEntry("masko", masko(idx[1], idx[2]))
  \/ ReadEntry("maskr", maskr(idx[1], idx[2]))
  \/ ReadEntry("mask_d", mask_d(idx[1], idx[2]))
  \/ ReadEntry("mask_d_v", mask_d_v(idx[1], idx[2]))

SpecTables == InitTables /\ [][ReadTable]_vars

(* the callers of last_flip and the readers of the tables *)
SpecLastFlipTables == (Init \/ InitTables) /\ [][LastFlip \/ ReadTable]_vars

(***************************************************************************)
(* Properties of the tables                                                *)
(***************************************************************************)
(* bit i of an 8-bit line pattern *)
PatBit(pattern, i) == (pattern \div Pow2(i)) % 2

(* the run of 0 bits next to cell k of an 8-cell line in direction dir (-1 or 1):
   its length, and whether a 1 bit ends it before the line boundary *)
ZeroRun(k, pattern, dir) ==
  Cardinality({ n \in 1 .. 7 :
                  \A j \in 1 .. n : (k + dir * j) \in 0 .. 7 /\ PatBit(pattern, k + dir * j) = 0 })

CountDir(k, pattern, dir) ==
  LET n == ZeroRun(k, pattern, dir)
      e == k + dir * (n + 1)
  IN  IF e \in 0 .. 7 /\ PatBit(pattern, e) = 1 THEN n ELSE 0

CountRule(k, pattern) == 2 * (CountDir(k, pattern, -1) + CountDir(k, pattern, 1))

(* C4: every entry COUNT_FLIP[k][pattern] is twice the sum, over the two directions
   from cell k, of the length of the run of 0 bits next to k when a 1 bit ends the
   run before the line boundary. *)
C4_CountFlipRule ==
  (pc = "read" /\ tab = "COUNT_FLIP") => val = CountRule(idx[1], idx[2])

(* an entry read for an inner cell with a counted run on both sides *)
C4_Witness ==
  /\ pc = "read" /\ tab = "COUNT_FLIP"
  /\ CountDir(idx[1], idx[2], -1) >= 1 /\ CountDir(idx[1], idx[2], 1) >= 2
  /\ val >= 6

(* the bit-index step of each direction, low side first *)
Steps == << -1, -7, -8, -9, 1, 7, 8, 9 >>

(* the cells reached from s by k steps of size step, each step a king move on the
   board (no wrap across an edge) *)
StepRay(s, step) ==
  { s + k * step : k \in { n \in 1 .. 7 :
      \A j \in 1 .. n : (s + j * step) \in Squares
                        /\ Dist(s + (j - 1) * step, s + j * step) = 1 } }

(* s lies on an edge that direction step points to *)
OnEdgeTowards(s, step) ==
  \/ (step \in {-1, -9, 7} /\ Col(s) = 0)
  \/ (step \in {1, -7, 9} /\ Col(s) = 7)
  \/ (step \in {-7, -8, -9} /\ Row(s) = 0)
  \/ (step \in {7, 8, 9} /\ Row(s) = 7)

(* C5: maskr[s][0..3] are the geometric rays from s in directions -1, -7, -8, -9 and
   the complements of the four maskl[s] lanes the rays in directions +1, +7, +8, +9;
   a ray is empty exactly when s lies on the edge its direction points to. *)
C5_MasksAreRays ==
  /\ (pc = "read" /\ tab = "maskr") =>
       /\ val = StepRay(idx[1], Steps[idx[2] + 1])
       /\ (val = ZERO) <=> OnEdgeTowards(idx[1], Steps[idx[2] + 1])
  /\ (pc = "read" /\ tab = "maskl") =>
       /\ Not(val) = StepRay(idx[1], Steps[idx[2] + 5])
       /\ (Not(val) = ZERO) <=> OnEdgeTowards(idx[1], Steps[idx[2] + 5])

(* a diagonal low-side mask of an inner square and a diagonal high-side lane of an
   inner square, both read *)
C5_Witness ==
  /\ pc = "read" /\ tab \in {"maskr", "maskl"}
  /\ idx[2] \in {1, 3}
  /\ Row(idx[1]) \in 2 .. 5 /\ Col(idx[1]) \in 2 .. 5
  /\ Cardinality(IF tab = "maskr" THEN val ELSE Not(val)) >= 2

(***************************************************************************)
(* Runs that reach the edge                                                *)
(***************************************************************************)
(* the values the part of the result computed for direction d can take: the term
   of line 460, 462, 464 or 466 for a low-side ray, the lane of outflank17 or
   outflank89 after line 472 or 473 for a high-side ray *)
Contribution(strategy, s, d, pl, op) ==
  IF d < 4 THEN flipped_r(strategy, s, pl, op, d)
  ELSE {outflank_l(s, pl, op, (d - 4) \div 2)[((d - 4) % 2) + 1]}

(* the opponent run next to s in direction d reaches the board edge *)
RunToEdge(s, d, op) == RayLen(s, d) >= 1 /\ RunLen(s, d, op) = RayLen(s, d)

(* C11: when no square holds two discs, a direction whose opponent run fills the
   ray up to the board edge contributes 0, whatever the build and the undefined
   scans yield, and the result holds no cell of that ray; and flip(square, 0, O)
   is 0 for every O. *)
C11_EdgeRunNoFlip ==
  (pc = "flip" /\ And(P, O) = ZERO) =>
    /\ \A d \in Dirs :
         RunToEdge(pos, d, O) =>
           /\ Contribution(build, pos, d, P, O) = {ZERO}
           /\ And(flipped, Ray(pos, d)) = ZERO
    /\ (P = ZERO => flipped = ZERO)

(* a call where a low-side run reaches the edge, scanned with a count of 64 by the
   LZCNT build, while another direction outflanks *)
C11_Witness ==
  /\ pc = "flip" /\ Valid /\ build = "lzcnt"
  /\ \E d \in 0 .. 3 : RunToEdge(pos, d, O) /\ RayLen(pos, d) >= 2
  /\ flipped # ZERO

(***************************************************************************)
(* Further properties of last_flip                                         *)
(***************************************************************************)
(* C12: when the other 63 squares all hold player discs, last_flip returns 0, in
   both builds. *)
C12_FullBoardNoFlip == (pc = "last_flip" /\ P = Not(x_to_bit(pos))) => n_flipped = 0

(* such a call on an interior square *)
C12_Witness ==
  /\ pc = "last_flip" /\ P = Not(x_to_bit(pos))
  /\ Row(pos) \in 1 .. 6 /\ Col(pos) \in 1 .. 6
  /\ n_flipped = 0

(* pattern ^ (1 << k) on an 8-bit pattern *)
XorBit(pattern, k) ==
  IF PatBit(pattern, k) = 1 THEN pattern - Pow2(k) ELSE pattern + Pow2(k)

(* C13: every entry COUNT_FLIP[k][pattern] equals the entry for the pattern with
   bit k inverted, and last_flip returns the same count whether or not P holds
   the played square's own bit. *)
C13_OwnBitDontCare ==
  /\ (pc = "read" /\ tab = "COUNT_FLIP") =>
        val = COUNT_FLIP(idx[1], XorBit(idx[2], idx[1]))
  /\ pc = "last_flip" =>
        /\ n_flipped = last_flip(build, pos, Or(P, x_to_bit(pos)))
        /\ n_flipped = last_flip(build, pos, And(P, Not(x_to_bit(pos))))

(* a call by the SSE build with the played square's bit set in P that counts flips
   on more than one line *)
C13_Witness ==
  /\ pc = "last_flip" /\ build = "sse" /\ pos \in P
  /\ n_flipped >= 4

(***************************************************************************)
(* Concurrent callers.  Each thread makes one call of flip or last_flip on  *)
(* its own arguments; a call runs in steps, each step a group of source    *)
(* lines that reads static storage, and the steps of the threads           *)
(* interleave freely.  The locals of a call (acc, hi) are the thread's own.*)
(* A step that reads an object some store has overwritten gets whatever    *)
(* the store left there.                                                   *)
(***************************************************************************)
NThreads == 2

Threads == 1 .. NThreads

(* the arguments the threads call with: a run of one disc on an empty board *)
CallArgs ==
  { << s, BoardP(s, d, 1, TRUE, -1, FALSE), BoardO(s, d, 1, -1) >> :
      s \in {18, 45}, d \in {0, 7} }

(* what a read of overwritten storage can yield *)
Garbage == {ZERO, ALLBITS}

InitThreads ==
  /\ pc = "threads"
  /\ build \in ScanStrategies \X LineStrategies
  /\ mem = StaticStorage
  /\ thr \in [Threads -> { [op |-> o, args |-> a, pc |-> "call", acc |-> ZERO,
                            hi |-> ZERO, ret |-> ZERO] :
                             o \in {"flip", "last_flip"}, a \in CallArgs }]
  /\ pos = 0
  /\ P = ZERO
  /\ O = ZERO
  /\ flipped = ZERO
  /\ n_flipped = 0
  /\ tab = "none"
  /\ idx = << 0, 0 >>
  /\ val = 0
  /\ moves = 0

(* thread t is in a call of function o, at position at *)
InCall(t, o, at) == pc = "threads" /\ thr[t].op = o /\ thr[t].pc = at

(* thread t moves to position to, its locals becoming acc and hi and its return
   value ret; the step leaves static storage as m *)
ThreadStep(t, to, acc, hi, ret, m) ==
  /\ thr' = [thr EXCEPT ![t] = [@ EXCEPT !.pc = to, !.acc = acc, !.hi = hi, !.ret = ret]]
  /\ mem' = m
  /\ UNCHANGED << pc, pos, P, O, build, flipped, n_flipped, tab, idx, val, moves >>

(* flip, lines 459-466 *)
FlipLow(t) ==
  /\ InCall(t, "flip", "call")
  /\ \E f \in (IF Intact(mem, {"masko", "maskr"})
                THEN flip_low(build[1], thr[t].args[1], thr[t].args[2], thr[t].args[3])
                ELSE Garbage) :
       ThreadStep(t, "low", f, thr[t].hi, thr[t].ret, flip_stores(mem))

(* flip, lines 468-475 *)
FlipHigh(t) ==
  /\ InCall(t, "flip", "low")
  /\ \E h \in (IF Intact(mem, {"maskl", "minusone"})
                THEN {flipped_l(thr[t].args[1], thr[t].args[2], thr[t].args[3])}
                ELSE Garbage) :
       ThreadStep(t, "high", thr[t].acc, h, thr[t].ret, flip_stores(mem))

(* flip, line 477 *)
FlipReturn(t) ==
  /\ InCall(t, "flip", "high")
  /\ ThreadStep(t, "done", thr[t].acc, thr[t].hi, Or(thr[t].acc, thr[t].hi),
                flip_stores(mem))

(* last_flip, lines 276-287: t in hi, the column lookup in acc *)
LastFlipLines(t) ==
  /\ InCall(t, "last_flip", "call")
  /\ LET ok == Intact(mem, {"mask_d", "mask_d_v", "COUNT_FLIP"})
     IN  \E h \in (IF ok THEN {last_flip_t(build[2], thr[t].args[1], thr[t].args[2])}
                    ELSE Garbage) :
           \E n \in (IF ok
                      THEN {ToBits(COUNT_FLIP(thr[t].args[1] \div 8,
                                              last_flip_col(build[2], thr[t].args[1],
                                                            thr[t].args[2])))}
                      ELSE Garbage) :
             ThreadStep(t, "lines", n, h, thr[t].ret, last_flip_stores(mem))

(* last_flip, lines 288-293 *)
LastFlipSum(t) ==
  /\ InCall(t, "last_flip", "lines")
  /\ \E r \in (IF Intact(mem, {"COUNT_FLIP"})
                THEN {ToBits(last_flip_sum(thr[t].args[1], thr[t].args[2],
                                           uchar(thr[t].acc), thr[t].hi))}
                ELSE Garbage) :
       ThreadStep(t, "done", thr[t].acc, thr[t].hi, r, last_flip_stores(mem))

NextThreads ==
  \E t \in Threads :
    FlipLow(t) \/ FlipHigh(t) \/ FlipReturn(t) \/ LastFlipLines(t) \/ LastFlipSum(t)

SpecThreads == InitThreads /\ [][NextThreads]_vars

(* the values the call of record c returns when it runs alone *)
Alone(c) ==
  IF c.op = "flip" THEN flip(build[1], c.args[1], c.args[2], c.args[3])
  ELSE {ToBits(last_flip(build[2], c.args[1], c.args[2]))}

(* C14: under every interleaving of the threads' calls no object of static
   storage (maskl, masko, maskr, COUNT_FLIP, mask_d, mask_d_v, minusone) is ever
   stored to, and every finished call has returned a value it returns when run
   alone on the same arguments. *)
C14_NoSharedWrites ==
  pc = "threads" =>
    /\ mem = StaticStorage
    /\ \A t \in Threads : thr[t].pc = "done" => thr[t].ret \in Alone(thr[t])

(* two threads called flip on identical arguments; one has returned a non-zero
   result while the other is between its low-side and its high-side lines *)
C14_Witness ==
  /\ pc = "threads"
  /\ thr[1].op = "flip" /\ thr[2].op = "flip" /\ thr[1].args = thr[2].args
  /\ thr[1].pc = "done" /\ thr[1].ret # ZERO
  /\ thr[2].pc = "low"

(***************************************************************************)
(* last_flip as four table lookups                                         *)
(***************************************************************************)
(* the 8-bit pattern whose bit r is 1 iff pl holds cell(r), cell(r) a square or
   -1 when the line has no cell there *)
RECURSIVE PatternFrom(_, _, _)
PatternFrom(pl, cell, r) ==
  IF r > 7 THEN 0
  ELSE (IF cell[r] \in pl THEN Pow2(r) ELSE 0) + PatternFrom(pl, cell, r + 1)

(* the row of p, bit c for column c; the column of p and the two diagonals through
   p, bit r for the line's cell in row r *)
RowPattern(p, pl) == PatternFrom(pl, [c \in 0 .. 7 |-> 8 * Row(p) + c], 0)

ColPattern(p, pl) == PatternFrom(pl, [r \in 0 .. 7 |-> 8 * r + Col(p)], 0)

DiagCell(p, r, dc) ==
  LET c == Col(p) + dc * (r - Row(p)) IN IF c \in 0 .. 7 THEN 8 * r + c ELSE -1

DiagPattern(p, pl) == PatternFrom(pl, [r \in 0 .. 7 |-> DiagCell(p, r, 1)], 0)

AntiDiagPattern(p, pl) == PatternFrom(pl, [r \in 0 .. 7 |-> DiagCell(p, r, -1)], 0)

(* C15: in both builds last_flip(pos, P) is COUNT_FLIP[x][row pattern] +
   COUNT_FLIP[y][column pattern] + COUNT_FLIP[y][diagonal pattern] +
   COUNT_FLIP[y][anti-diagonal pattern] with x = pos & 7, y = pos >> 3 and the
   patterns read off the board; last_flip(0, 0xFFFFFFFFFFFFFFF8) is 4. *)
C15_FourLookups ==
  pc = "last_flip" =>
    /\ n_flipped = COUNT_FLIP(Col(pos), RowPattern(pos, P))
                     + COUNT_FLIP(Row(pos), ColPattern(pos, P))
                     + COUNT_FLIP(Row(pos), DiagPattern(pos, P))
                     + COUNT_FLIP(Row(pos), AntiDiagPattern(pos, P))
    /\ (pos = 0 /\ P = Not({0, 1, 2})) => n_flipped = 4

(* the call last_flip(0, 0xFFFFFFFFFFFFFFF8) by the AVX2 build *)
C15_Witness ==
  /\ pc = "last_flip" /\ build = "avx2"
  /\ pos = 0 /\ P = Not({0, 1, 2})
  /\ n_flipped = 4

(***************************************************************************)
(* The scan of the low-side rays                                           *)
(***************************************************************************)
(* the value count_opp_reverse hands to __builtin_clzll (bit.h:429) *)
ClzArgument(p, op, i) == Xor(And(op, masko(p, i)), maskr(p, i))

(* C16: in the build without LZCNT the value handed to __builtin_clzll,
   (O & masko[pos][i]) ^ maskr[pos][i], is not 0 for any ray index i. *)
C16_GuardianNonZero ==
  (pc = "flip" /\ build = "clz") => \A i \in 0 .. 3 : ClzArgument(pos, O, i) # ZERO

(***************************************************************************)
(* A game built from flip.  P is the side to move, O the other side; a     *)
(* move puts a disc on an empty square s, turns the discs flip returns and *)
(* hands the move to the other side.  The mover picks an empty square next *)
(* to a disc, or an empty corner.                                          *)
(***************************************************************************)
MaxMoves == 3

(* the starting positions: the opening position, and a board where a ring of
   discs of the side not to move surrounds the one empty square *)
StartPositions ==
  { << {28, 35}, {27, 36} >> }
    \cup { << BoardP(27, 0, 0, TRUE, r, FALSE), BoardO(27, 0, 0, r) >> : r \in 1 .. 2 }

MoveSquares(pl, op) ==
  { s \in Squares \ (pl \cup op) :
      s \in {0, 7, 56, 63} \/ \E t \in pl \cup op : Dist(s, t) = 1 }

InitGame ==
  /\ pc = "game"
  /\ build \in ScanStrategies
  /\ \E st \in StartPositions : P = st[1] /\ O = st[2]
  /\ pos = 0
  /\ flipped = ZERO
  /\ moves = 0
  /\ n_flipped = 0
  /\ tab = "none"
  /\ idx = << 0, 0 >>
  /\ val = 0
  /\ mem = StaticStorage
  /\ thr = << >>

Move ==
  /\ pc = "game"
  /\ moves < MaxMoves
  /\ \E s \in MoveSquares(P, O) :
       \E f \in flip(build, s, P, O) :
         /\ pos' = s
         /\ flipped' = f
         /\ P' = And(O, Not(f))
         /\ O' = Or(Or(P, f), x_to_bit(s))
  /\ moves' = moves + 1
  /\ UNCHANGED << pc, build, n_flipped, tab, idx, val, mem, thr >>

SpecGame == InitGame /\ [][Move]_vars

(* C17: along every sequence of moves built from flip the two disc sets stay
   disjoint, and every move keeps each occupied square occupied and adds exactly
   one disc to the board. *)
C17_MovesKeepValidity ==
  /\ [](pc = "game" => And(P, O) = ZERO)
  /\ [][(pc = "game" /\ moves' = moves + 1) =>
          /\ Or(P, O) \subseteq Or(P', O')
          /\ bit_count(P') + bit_count(O') = bit_count(P) + bit_count(O) + 1]_vars

(* the position after the third move of a game from the opening position, the
   move having turned discs in more than one direction *)
C17_Witness ==
  /\ pc = "game" /\ moves = 3
  /\ bit_count(flipped) >= 2 /\ flipped \subseteq O /\ pos \in O
  /\ bit_count(P) + bit_count(O) = 7

(***************************************************************************)
(* The result stays on the rays                                            *)
(***************************************************************************)
(* the union of the 8 ray masks of square p *)
RayMasks(p) ==
  UNION { maskr(p, i) : i \in 0 .. 3 } \cup UNION { Not(maskl(p, q)) : q \in 0 .. 3 }

(* C18: for every input, those that break the preconditions included, the result
   of flip lies within the union of maskr[square][0..3] and the complements of the
   maskl[square] lanes; it holds neither the played square nor a square off the
   row, the column and the diagonals through it. *)
C18_FlipOnRays ==
  pc = "flip" =>
    /\ flipped \subseteq RayMasks(pos)
    /\ pos \notin flipped
    /\ flipped \subseteq UNION { Ray(pos, d) : d \in Dirs }

(* a call with overlapping disc sets and a disc of both sides on the played square
   that returns a non-zero result *)
C18_Witness ==
  /\ pc = "flip"
  /\ And(P, O) # ZERO /\ pos \in P /\ pos \in O
  /\ flipped # ZERO

(***************************************************************************)
(* The table accesses of last_flip                                         *)
(***************************************************************************)
(* C19: in both builds every COUNT_FLIP access of last_flip has its first index in
   0..7 and its second index in 0..255, the column access (t >> 16 with AVX2, the
   movemask of the shifted P without) included; the count returned is then the sum
   of the four entries. *)
C19_AccessInBounds ==
  /\ pc = "access" => \A i \in 1 .. 4 : InBounds(idx[i])
  /\ pc = "last_flip" => n_flipped = last_flip(build, pos, P)

(* the AVX2 build about to read the column entry with a pattern that has bit 7 set,
   on a board where the played column holds further player discs *)
C19_Witness ==
  /\ pc = "access" /\ build = "avx2"
  /\ idx[1][2] >= 128
  /\ bit_count(And(P, mask_d_v(pos, 2))) >= 3

(***************************************************************************)
(* Out-of-range scan counts                                                *)
(***************************************************************************)
(* the counts count_opp_reverse can return for ray i *)
ScanCounts(strategy, p, op, i) ==
  count_opp_reverse(strategy, op, masko(p, i), maskr(p, i))

(* C20: for every input, a low-side ray with an empty mask contributes 0 in both
   builds whatever count the scan returns; and when the LZCNT scan returns 64 on a
   ray, (-(x & P) * 2) & maskr[pos][i] is 0 for x = 0 and for
   x = 0x8000000000000000, so the ray contributes 0. *)
C20_ScanCountNoLeak ==
  pc = "flip" =>
    \A i \in 0 .. 3 :
      /\ maskr(pos, i) = ZERO =>
            \A s \in ScanStrategies : flipped_r(s, pos, P, O, i) = {ZERO}
      /\ 64 \in ScanCounts("lzcnt", pos, O, i) =>
            /\ \A x \in {ZERO, {63}} :
                 And(Mul2(Neg(And(x, P))), maskr(pos, i)) = ZERO
            /\ flipped_r("lzcnt", pos, P, O, i) = {ZERO}

(* a call by the LZCNT build where P holds bit 63, a non-empty low-side ray is full
   of opponent discs (count 64) and another low-side ray has an empty mask *)
C20_Witness ==
  /\ pc = "flip" /\ build = "lzcnt"
  /\ 63 \in P
  /\ \E i \in 0 .. 3 : maskr(pos, i) # ZERO /\ 64 \in ScanCounts("lzcnt", pos, O, i)
  /\ \E j \in 0 .. 3 : maskr(pos, j) = ZERO

(***************************************************************************)
(* Diagonals shorter than 8 cells                                          *)
(***************************************************************************)
(* the rows the diagonal through p with column step dc per row does not reach *)
Padding(p, dc) == { r \in 0 .. 7 : DiagCell(p, r, dc) = -1 }

(* the discs a last move on s flips in direction d, counted by walking the board *)
FlipsOn(s, d, pl) ==
  LET op == ImpliedO(s, pl)
  IN  IF Outflanks(s, d, pl, op) THEN RunLen(s, d, op) ELSE 0

(* C21: in both builds the rows a diagonal or anti-diagonal does not reach are 0
   bits of its 8-bit pattern (byte 1 of t for the diagonal, byte 0 for the
   anti-diagonal), and for every pos and P the lookup COUNT_FLIP[y][pattern] is
   twice the number of discs flipped on the real diagonal. *)
C21_PaddingNeverCounts ==
  pc = "last_flip" =>
    LET t == last_flip_t(build, pos, P)
    IN  /\ t \cap { r + 8 : r \in Padding(pos, 1) } = {}
        /\ t \cap Padding(pos, -1) = {}
        /\ COUNT_FLIP(Row(pos), uchar(Shr(t, 8)))
              = 2 * (FlipsOn(pos, 3, P) + FlipsOn(pos, 7, P))
        /\ COUNT_FLIP(Row(pos), uchar(t))
              = 2 * (FlipsOn(pos, 1, P) + FlipsOn(pos, 5, P))

(* a last move on a diagonal that ends before row 0 or row 7: the opponent run
   towards that end reaches the edge, so only padding follows it in the pattern,
   and the other side of the same diagonal is outflanked *)
C21_Witness ==
  /\ pc = "last_flip"
  /\ \E d \in {1, 3, 5, 7} :
       /\ RunToEdge(pos, d, ImpliedO(pos, P))
       /\ Row(RayCell(pos, d, RayLen(pos, d))) \in 1 .. 6
       /\ FlipsOn(pos, (d + 4) % 8, P) >= 1
  /\ n_flipped >= 2

(***************************************************************************)
(* Squares off the lines through the played square                         *)
(***************************************************************************)
(* the row, the column and the two diagonals through p, p included *)
LinesTab == [p \in Squares |-> {p} \cup UNION { Ray(p, d) : d \in Dirs }]

Lines(p) == LinesTab[p]

(* pairs of disjoint disc sets to put on the squares off the lines: no disc, every
   square to one side, and the board's own discs with the sides exchanged *)
OffLineBoards(pl, op) ==
  { << ZERO, ZERO >>, << ALLBITS, ZERO >>, << ZERO, ALLBITS >>, << op, pl >> }

(* board w with the squares off the lines through p taken from x *)
Repaint(w, p, x) == (w \cap Lines(p)) \cup (x \ Lines(p))

(* C22: for valid inputs the result of flip is the same for every input that agrees
   with the call's on the row, the column and the two diagonals through the
   square, and the count of last_flip is the same for every P that agrees with the
   call's on those lines, in every build. *)
C22_OnlyLinesMatter ==
  /\ (pc = "flip" /\ Valid) =>
        \A v \in OffLineBoards(P, O) :
          flip(build, pos, Repaint(P, pos, v[1]), Repaint(O, pos, v[2])) = {flipped}
  /\ pc = "last_flip" =>
        \A x \in { v[1] : v \in OffLineBoards(P, O) } :
          last_flip(build, pos, Repaint(P, pos, x)) = n_flipped

(* a valid call of flip that flips discs on a board with discs of both sides off
   the lines through the square *)
C22_Witness ==
  /\ pc = "flip" /\ Valid
  /\ P \ Lines(pos) # {} /\ O \ Lines(pos) # {}
  /\ flipped # ZERO

(***************************************************************************)
(* flipmask on its own.  A caller holds a __v2di whose two lanes are built *)
(* from a sample of bit positions (both ends and the middle of each 32-bit *)
(* half) and calls flipmask once; idx holds the argument, val the result.  *)
(***************************************************************************)
LaneBits == {0, 1, 31, 32, 33, 63}

LaneValues == SUBSET LaneBits

InitLanes ==
  /\ pc = "lanes"
  /\ tab = "none"
  /\ idx \in LaneValues \X LaneValues
  /\ val = 0
  /\ mem = StaticStorage
  /\ thr = << >>
  /\ moves = 0
  /\ build = "none"
  /\ pos = 0
  /\ P = ZERO
  /\ O = ZERO
  /\ flipped = ZERO
  /\ n_flipped = 0

FlipMask ==
  /\ pc = "lanes"
  /\ val' = flipmask(idx)
  /\ pc' = "flipmask"
  /\ UNCHANGED << pos, P, O, build, flipped, n_flipped, tab, idx, mem, thr, moves >>

SpecFlipMask == InitLanes /\ [][FlipMask]_vars

(* C23: for each 64-bit lane and every lane value, flipmask returns all ones if the
   lane of outflank is 0 and all zeros if the lane contains a 1 bit. *)
C23_FlipmaskLanes ==
  pc = "flipmask" =>
    \A l \in 1 .. 2 : val[l] = (IF idx[l] = ZERO THEN ALLBITS ELSE ZERO)

====
